---- MODULE Spec2Model ----
(***************************************************************************)
(* Pricing core of the car-rental backend: Money, PricingService,          *)
(* OfferPricingService and the rate helpers of the Car entity.             *)
(*                                                                         *)
(* Numbers.  Every price is a fixed-point integer counting 1/Scale of a    *)
(* currency unit (Python Decimal / float in the source).  The whole-number *)
(* prices stored in the car and offer dictionaries are converted with Fix  *)
(* where the code reads them.  Decimal factors (0.15, 0.20, 0.25, 1-d/100) *)
(* are integers counting hundredths.  The inputs are chosen so that every  *)
(* product is an exact multiple of 1/Scale, as it is for Decimal.          *)
(*                                                                         *)
(* Dictionaries (car_data, offer, external_offer_prices) are functions     *)
(* whose DOMAIN is the set of keys present; d.get(k, default) is Get.      *)
(***************************************************************************)
EXTENDS Integers, Sequences, FiniteSets, TLC

VARIABLES pc, op, args, ret, external_offer_prices, contract, wallet,
          requests, booking, user, car

vars == <<pc, op, args, ret, external_offer_prices, contract, wallet, requests, booking, user, car>>

\* ------------------------------------------------------------------ bounds
MaxCount == 3
MaxOffers == 2
MaxDay == 2
MaxMonths == 2
MaxRequests == 2
MaxBalance == 100

\* ------------------------------------------------------- numeric encoding
Scale == 100 * 100

Fix(n) == n * Scale

\* floor(a * n / d) without overflowing the intermediate product
MulDiv(a, n, d) == (a \div d) * n + ((a % d) * n) \div d

\* ------------------------------------------------------------ dictionaries
EmptyDict == [k \in {} |-> 0]

Get(d, k, default) == IF k \in DOMAIN d THEN d[k] ELSE default

Has(d, k) == k \in DOMAIN d

\* ------------------------------------------------------- results / raising
Ok(v) == [ok |-> TRUE, value |-> v]

Raise(e) == [ok |-> FALSE, error |-> e]

\* ------------------------------------------------------------------ Money
\* str.upper() on the currency codes that occur
Upper(c) ==
  CASE c = "sar" -> "SAR"
    [] c = "usd" -> "USD"
    [] OTHER -> c

\* Money.__init__: amount kept as an exact decimal, currency upper-cased
Money(amount, currency) == [amount |-> amount, currency |-> Upper(currency)]

\* Money.add: ValueError on different currencies
add(a, b) ==
  IF a.currency # b.currency
    THEN Raise("ValueError")
    ELSE Ok(Money(a.amount + b.amount, a.currency))

\* Money.subtract
subtract(a, b) ==
  IF a.currency # b.currency
    THEN Raise("ValueError")
    ELSE Ok(Money(a.amount - b.amount, a.currency))

\* Money.multiply; the factor is given in hundredths
multiply(m, factorH) == Money(MulDiv(m.amount, factorH, 100), m.currency)

\* Money.apply_discount: factor = 1 - discount_percent / 100
apply_discount(m, discount_percent) == multiply(m, 100 - discount_percent)

\* Money.calculate_tax: multiply(tax_rate / 100); tax_rate in hundredths
calculate_tax(m, tax_rateH) ==
  Money(MulDiv(m.amount, tax_rateH, 100 * 100), m.currency)

\* ---------------------------------------------------------------- Decimal
\* Amounts of any magnitude.  The fixed-point integers above stand for the
\* Decimals whose sums and products stay exact; a Decimal in full is
\* [kind, sign, digits, exp]: (-1)^sign x digits x 10^exp, digits being the
\* coefficient, most significant digit first and none for zero, or a NaN, or
\* an Infinity.  Arithmetic results are kept in canonical form (no trailing
\* zero in the coefficient), so that equal numbers are equal records.
\* decimal.getcontext().prec, the default context of the decimal module
Prec == 28

Zeros(n) == [i \in 1..n |-> 0]

RECURSIVE StripLeading(_)
StripLeading(x) ==
  IF x # <<>> /\ Head(x) = 0 THEN StripLeading(Tail(x)) ELSE x

RECURSIVE TrailingZeros(_)
TrailingZeros(x) ==
  IF x # <<>> /\ x[Len(x)] = 0
    THEN 1 + TrailingZeros(SubSeq(x, 1, Len(x) - 1))
    ELSE 0

Finite(sign, digits, exp) ==
  [kind |-> "finite", sign |-> sign, digits |-> digits, exp |-> exp]

NaN == [kind |-> "NaN", sign |-> 0, digits |-> <<>>, exp |-> 0]

Infinity(sign) ==
  [kind |-> "Infinity", sign |-> sign, digits |-> <<>>, exp |-> 0]

\* the canonical record of the number (-1)^sign x digits x 10^exp
Canonical(sign, digits, exp) ==
  LET d == StripLeading(digits)
      z == TrailingZeros(d)
  IN  IF d = <<>> THEN Finite(0, <<>>, 0)
      ELSE Finite(sign, SubSeq(d, 1, Len(d) - z), exp + z)

\* the digits of x + y + carry from position i down to the first, x and y
\* of the same length
RECURSIVE AddFrom(_, _, _, _)
AddFrom(x, y, i, carry) ==
  IF i = 0 THEN <<carry>>
  ELSE LET t == x[i] + y[i] + carry
       IN  Append(AddFrom(x, y, i - 1, t \div 10), t % 10)

\* the digits of x - y - borrow, x >= y, both of the same length
RECURSIVE SubFrom(_, _, _, _)
SubFrom(x, y, i, borrow) ==
  IF i = 0 THEN <<>>
  ELSE LET t == x[i] - y[i] - borrow
       IN  Append(SubFrom(x, y, i - 1, IF t < 0 THEN 1 ELSE 0),
                  IF t < 0 THEN t + 10 ELSE t)

PadLeft(x, n) == Zeros(n - Len(x)) \o x

\* x < y for coefficients of the same length
RECURSIVE LessFrom(_, _, _)
LessFrom(x, y, i) ==
  IF i > Len(x) THEN FALSE
  ELSE IF x[i] # y[i] THEN x[i] < y[i]
  ELSE LessFrom(x, y, i + 1)

\* the exact sum of two finite Decimals, as sign, digits and exponent
ExactSum(x, y) ==
  LET e == IF x.exp < y.exp THEN x.exp ELSE y.exp
      cx == x.digits \o Zeros(x.exp - e)
      cy == y.digits \o Zeros(y.exp - e)
      n == IF Len(cx) > Len(cy) THEN Len(cx) ELSE Len(cy)
      px == PadLeft(cx, n)
      py == PadLeft(cy, n)
  IN  IF x.sign = y.sign
        THEN [sign |-> x.sign, digits |-> StripLeading(AddFrom(px, py, n, 0)),
              exp |-> e]
      ELSE IF LessFrom(px, py, 1)
        THEN [sign |-> y.sign, digits |-> StripLeading(SubFrom(py, px, n, 0)),
              exp |-> e]
        ELSE [sign |-> x.sign, digits |-> StripLeading(SubFrom(px, py, n, 0)),
              exp |-> e]

\* the number of significant digits of a coefficient
SignificantDigits(digits) ==
  Len(StripLeading(digits)) - TrailingZeros(StripLeading(digits))

\* rounding of a result to Prec digits, ROUND_HALF_EVEN
Rounded(sign, digits, exp) ==
  IF Len(digits) <= Prec THEN Canonical(sign, digits, exp)
  ELSE LET kept == SubSeq(digits, 1, Prec)
           rest == SubSeq(digits, Prec + 1, Len(digits))
           up == \/ rest[1] > 5
                 \/ /\ rest[1] = 5
                    /\ \/ \E i \in 2..Len(rest) : rest[i] # 0
                       \/ kept[Prec] % 2 = 1
       IN  Canonical(sign,
                     IF up THEN AddFrom(kept, PadLeft(<<1>>, Prec), Prec, 0)
                     ELSE kept,
                     exp + Len(rest))

Negated(x) == [x EXCEPT !.sign = 1 - @]

\* Decimal.__add__ under the default context
Decimal_add(x, y) ==
  IF x.kind = "NaN" \/ y.kind = "NaN" THEN Ok(NaN)
  ELSE IF x.kind = "Infinity" /\ y.kind = "Infinity"
    THEN IF x.sign = y.sign THEN Ok(x) ELSE Raise("InvalidOperation")
  ELSE IF x.kind = "Infinity" THEN Ok(x)
  ELSE IF y.kind = "Infinity" THEN Ok(y)
  ELSE LET sum == ExactSum(x, y)
       IN  Ok(Rounded(sum.sign, sum.digits, sum.exp))

\* Decimal.__sub__
Decimal_subtract(x, y) == Decimal_add(x, Negated(y))

\* Decimal.__eq__: a NaN equals nothing
Decimal_eq(x, y) ==
  /\ x.kind # "NaN"
  /\ y.kind # "NaN"
  /\ IF x.kind = "finite" /\ y.kind = "finite"
       THEN Canonical(x.sign, x.digits, x.exp)
            = Canonical(y.sign, y.digits, y.exp)
       ELSE x.kind = y.kind /\ x.sign = y.sign

\* variant of Money_subtract: the currencies are not compared
Money_subtract_AnyCurrency(self, other) ==
  LET amount == Decimal_subtract(self.amount, other.amount)
  IN  IF amount.ok THEN Ok(Money(amount.value, self.currency)) ELSE amount

\* Money.add on Decimal amounts
Money_add(self, other) ==
  IF self.currency # other.currency THEN Raise("ValueError")
  ELSE LET amount == Decimal_add(self.amount, other.amount)
       IN  IF amount.ok THEN Ok(Money(amount.value, self.currency))
           ELSE amount

\* Money.subtract on Decimal amounts
Money_subtract(self, other) ==
  IF self.currency # other.currency THEN Raise("ValueError")
  ELSE LET amount == Decimal_subtract(self.amount, other.amount)
       IN  IF amount.ok THEN Ok(Money(amount.value, self.currency))
           ELSE amount

\* the generated __eq__ of the dataclass: amount and currency are equal
Money_eq(self, other) ==
  Decimal_eq(self.amount, other.amount) /\ self.currency = other.currency

\* ---------------------------------------------------------- PricingService
\* PricingService.TAX_RATE = 0.15, in hundredths
TAX_RATE == 15

\* the daily rate as calculate_base_price reads it
DailyRateOf(car_data) ==
  Fix(Get(car_data, "rental_price_day", Get(car_data, "rental_price", 0)))

\* variant of calculate_base_price: only a missing weekly or monthly rate
\* falls back to the daily rate, a zero one is used as it is
calculate_base_price_ZeroRateKept(car_data, booking_type, count) ==
  LET currency == Get(car_data, "Currency", "SAR")
      monthly == Fix(Get(car_data, "rental_price_month",
                         Get(car_data, "rental_price_mounth", 0)))
  IN  CASE booking_type = "Day" ->
             Ok(Money(DailyRateOf(car_data) * count, currency))
        [] booking_type = "Week" ->
             Ok(Money((IF Has(car_data, "rental_price_week")
                         THEN Fix(car_data["rental_price_week"])
                         ELSE DailyRateOf(car_data) * 7) * count, currency))
        [] booking_type = "Month" ->
             Ok(Money((IF Has(car_data, "rental_price_month")
                          \/ Has(car_data, "rental_price_mounth")
                         THEN monthly
                         ELSE DailyRateOf(car_data) * 30) * count, currency))
        [] OTHER -> Raise("ValidationError")

\* PricingService.calculate_base_price
calculate_base_price(car_data, booking_type, count) ==
  LET currency == Get(car_data, "Currency", "SAR")
      weekly == Fix(Get(car_data, "rental_price_week", 0))
      monthly == Fix(Get(car_data, "rental_price_month",
                         Get(car_data, "rental_price_mounth", 0)))
  IN  CASE booking_type = "Day" ->
             Ok(Money(DailyRateOf(car_data) * count, currency))
        [] booking_type = "Week" ->
             Ok(Money((IF weekly = 0 THEN DailyRateOf(car_data) * 7
                                     ELSE weekly) * count, currency))
        [] booking_type = "Month" ->
             Ok(Money((IF monthly = 0 THEN DailyRateOf(car_data) * 30
                                      ELSE monthly) * count, currency))
        [] OTHER -> Raise("ValidationError")

\* index of the first package whose packageMonths matches, 0 if none
RECURSIVE FirstPackage(_, _, _)
FirstPackage(packages, package_months, i) ==
  IF i > Len(packages) THEN 0
  ELSE IF Has(packages[i], "packageMonths")
          /\ packages[i]["packageMonths"] = package_months
       THEN i
       ELSE FirstPackage(packages, package_months, i + 1)

\* PricingService.calculate_package_price
calculate_package_price(car_data, package_months) ==
  LET packages == Get(car_data, "Packages", <<>>)
      i == FirstPackage(packages, package_months, 1)
  IN  IF i = 0
        THEN Raise("ValidationError")
        ELSE Ok(Money(Fix(Get(packages[i], "priceB4Discount", 0)),
                      Get(car_data, "Currency", "SAR")))

\* PricingService.apply_discount
PricingService_apply_discount(base_price, discount_percent) ==
  IF discount_percent < 0 \/ discount_percent > 100
    THEN Raise("ValidationError")
    ELSE Ok(apply_discount(base_price, discount_percent))

\* PricingService.calculate_taxes
calculate_taxes(taxable_amount) == calculate_tax(taxable_amount, TAX_RATE)

\* str.lower() on the offer type strings that occur
Lower(s) ==
  CASE s = "Insurance" -> "insurance"
    [] s = "KM" -> "km"
    [] s = "ChildChair" -> "childchair"
    [] s = "Documents" -> "documents"
    [] s = "Gadget" -> "gadget"
    [] OTHER -> s

\* PricingService._calculate_offer_price
PricingService_calculate_offer_price(offer, base_price) ==
  LET offer_type == Lower(Get(offer, "type", ""))
  IN  CASE offer_type = "km_package" -> multiply(base_price, 25)
        [] offer_type = "insurance" ->
             multiply(base_price, Get(offer, "percentage", 0))
        [] offer_type = "documents" ->
             Money(Fix(Get(offer, "price", 0)), base_price.currency)
        [] offer_type = "child_chair" ->
             Money(Fix(Get(offer, "daily_rate", 0)) * Get(offer, "days", 1),
                   base_price.currency)
        [] OTHER -> Money(Fix(Get(offer, "price", 0)), base_price.currency)

\* PricingService.calculate_offers_total: the loop from offer i on, with the
\* running total
RECURSIVE OffersTotalFrom(_, _, _, _)
OffersTotalFrom(offers, base_price, i, total) ==
  IF i > Len(offers) THEN Ok(total)
  ELSE LET r == add(total,
                    PricingService_calculate_offer_price(offers[i], base_price))
       IN  IF r.ok THEN OffersTotalFrom(offers, base_price, i + 1, r.value)
                   ELSE r

calculate_offers_total(offers, base_price) ==
  OffersTotalFrom(offers, base_price, 1, Money(0, base_price.currency))

\* variant of BookingBreakdown: the delivery fee is left out of the total
BookingBreakdown_OmitsDelivery(currency, booking_cost, delivery_fee, offers) ==
  LET offers_total == IF Len(offers) > 0
                        THEN calculate_offers_total(offers, booking_cost)
                        ELSE Ok(Money(0, currency))
      taxes == calculate_taxes(booking_cost)
      delivery == Money(Fix(delivery_fee), currency)
      s1 == add(booking_cost, taxes)
      s3 == IF s1.ok THEN add(s1.value, offers_total.value) ELSE s1
  IN  IF ~offers_total.ok THEN offers_total
      ELSE IF ~s3.ok THEN s3
      ELSE Ok([booking_cost |-> booking_cost,
               taxes |-> taxes,
               delivery_fee |-> delivery,
               offers_total |-> offers_total.value,
               total_cost |-> s3.value])

\* the part of calculate_total_booking_cost after the (discounted) booking
\* cost is known
BookingBreakdown(currency, booking_cost, delivery_fee, offers) ==
  LET offers_total == IF Len(offers) > 0
                        THEN calculate_offers_total(offers, booking_cost)
                        ELSE Ok(Money(0, currency))
      taxes == calculate_taxes(booking_cost)
      delivery == Money(Fix(delivery_fee), currency)
      s1 == add(booking_cost, taxes)
      s2 == IF s1.ok THEN add(s1.value, delivery) ELSE s1
      s3 == IF s2.ok THEN add(s2.value, offers_total.value) ELSE s2
  IN  IF ~offers_total.ok THEN offers_total
      ELSE IF ~s3.ok THEN s3
      ELSE Ok([booking_cost |-> booking_cost,
               taxes |-> taxes,
               delivery_fee |-> delivery,
               offers_total |-> offers_total.value,
               total_cost |-> s3.value])

\* PricingService.calculate_total_booking_cost; package_months = 0 stands for
\* None (both are falsy in "is_package_booking and package_months")
calculate_total_booking_cost(car_data, booking_type, count, discount_percent, delivery_fee, offers, is_package_booking, package_months) ==
  LET currency == Get(car_data, "Currency", "SAR")
      base == IF is_package_booking /\ package_months # 0
                THEN calculate_package_price(car_data, package_months)
                ELSE calculate_base_price(car_data, booking_type, count)
      booking_cost == IF base.ok /\ discount_percent > 0
                        THEN PricingService_apply_discount(base.value,
                                                           discount_percent)
                        ELSE base
  IN  IF ~booking_cost.ok THEN booking_cost
      ELSE BookingBreakdown(currency, booking_cost.value, delivery_fee, offers)

\* ----------------------------------------------------- OfferPricingService
\* OfferPricingService.TAX_RATE = 0.15, in hundredths
OfferPricing_TAX_RATE == 15

\* OfferPricingService.INSURANCE_PERCENTAGE = 0.20, in hundredths
INSURANCE_PERCENTAGE == 20

\* OfferPricingService.KM_PERCENTAGE = 0.25, in hundredths
KM_PERCENTAGE == 25

DAYS_PER_WEEK == 7

DAYS_PER_MONTH == 30

\* the values of the BookingType enum; BookingType(x) raises ValueError
\* for any other string
BookingType == {"Day", "Week", "Month"}

\* the values of the OfferType enum
OfferType == {"Insurance", "KM", "ChildChair", "Documents"}

\* base_price * (1 - discount_percent / 100) when has_discount and
\* discount_percent > 0
DiscountedRate(base_price, has_discount, discount_percent) ==
  IF has_discount /\ discount_percent > 0
    THEN MulDiv(base_price, 100 - discount_percent, 100)
    ELSE base_price

\* the final "base_price <= 0" check of calculate_current_car_price
PositiveOrRaise(base_price) ==
  IF base_price <= 0 THEN Raise("ValidationError") ELSE Ok(base_price)

\* variant of calculate_current_car_price: the discount is applied on top
\* of the booked day price
calculate_current_car_price_DiscountsBookedPrice(car_data, booking_type, has_discount, discount_percent) ==
  CASE booking_type \notin BookingType -> Raise("ValueError")
    [] booking_type = "Day" ->
         PositiveOrRaise(
           DiscountedRate(
             IF Has(car_data, "booked_day_price")
                /\ car_data["booked_day_price"] # 0
               THEN Fix(car_data["booked_day_price"])
               ELSE Fix(Get(car_data, "rental_price_day",
                            Get(car_data, "rental_price", 0))),
             has_discount, discount_percent))
    [] booking_type = "Week" ->
         PositiveOrRaise(
           DiscountedRate(Fix(Get(car_data, "rental_price_week", 0)),
                          has_discount, discount_percent))
    [] booking_type = "Month" ->
         PositiveOrRaise(
           DiscountedRate(Fix(Get(car_data, "rental_price_month", 0)),
                          has_discount, discount_percent))

\* OfferPricingService.calculate_current_car_price
calculate_current_car_price(car_data, booking_type, has_discount, discount_percent) ==
  CASE booking_type \notin BookingType -> Raise("ValueError")
    [] booking_type = "Day" ->
         IF Has(car_data, "booked_day_price")
            /\ car_data["booked_day_price"] # 0
           THEN Ok(Fix(car_data["booked_day_price"]))
           ELSE PositiveOrRaise(
                  DiscountedRate(
                    Fix(Get(car_data, "rental_price_day",
                            Get(car_data, "rental_price", 0))),
                    has_discount, discount_percent))
    [] booking_type = "Week" ->
         PositiveOrRaise(
           DiscountedRate(Fix(Get(car_data, "rental_price_week", 0)),
                          has_discount, discount_percent))
    [] booking_type = "Month" ->
         PositiveOrRaise(
           DiscountedRate(Fix(Get(car_data, "rental_price_month", 0)),
                          has_discount, discount_percent))

\* OfferPricingService.calculate_total_days
calculate_total_days(booking_type, units) ==
  CASE booking_type \notin BookingType -> Raise("ValueError")
    [] booking_type = "Day" -> Ok(units)
    [] booking_type = "Week" -> Ok(units * DAYS_PER_WEEK)
    [] booking_type = "Month" -> Ok(units * DAYS_PER_MONTH)

\* variant of calculate_insurance_offer_price: the KM percentage is applied
calculate_insurance_offer_price_KmPercentage(current_car_price, units, currency) ==
  Money(MulDiv(current_car_price * units, KM_PERCENTAGE, 100), currency)

\* OfferPricingService.calculate_insurance_offer_price
calculate_insurance_offer_price(current_car_price, units, currency) ==
  Money(MulDiv(current_car_price * units, INSURANCE_PERCENTAGE, 100), currency)

\* OfferPricingService.calculate_km_offer_price
calculate_km_offer_price(current_car_price, units, currency) ==
  Money(MulDiv(current_car_price * units, KM_PERCENTAGE, 100), currency)

\* offer_data.get("offerPrice", offer_data.get("price", 0))
OfferPriceOf(offer_data) ==
  Fix(Get(offer_data, "offerPrice", Get(offer_data, "price", 0)))

\* variant of calculate_child_chair_offer_price: a missing tier rate is an
\* error instead of a fallback to the daily price
calculate_child_chair_offer_price_RequiresTier(ext, offer_data, booking_type, units, total_days, currency) ==
  LET offer_name == Get(offer_data, "offer", Get(offer_data, "name", ""))
      external_prices == Get(ext, offer_name, EmptyDict)
  IN  CASE booking_type \notin BookingType -> Raise("ValueError")
        [] booking_type = "Day" ->
             Ok(Money(OfferPriceOf(offer_data) * units, currency))
        [] booking_type = "Week" ->
             IF Has(external_prices, "L2")
               THEN Ok(Money(Fix(external_prices["L2"]) * total_days, currency))
               ELSE Raise("ValidationError")
        [] booking_type = "Month" ->
             IF Has(external_prices, "L3")
               THEN Ok(Money(Fix(external_prices["L3"]) * total_days, currency))
               ELSE Raise("ValidationError")

\* OfferPricingService.calculate_child_chair_offer_price
calculate_child_chair_offer_price(ext, offer_data, booking_type, units, total_days, currency) ==
  LET offer_name == Get(offer_data, "offer", Get(offer_data, "name", ""))
      external_prices == Get(ext, offer_name, EmptyDict)
  IN  CASE booking_type \notin BookingType -> Raise("ValueError")
        [] booking_type = "Day" ->
             Ok(Money(OfferPriceOf(offer_data) * units, currency))
        [] booking_type = "Week" ->
             IF Has(external_prices, "L2")
               THEN Ok(Money(Fix(external_prices["L2"]) * total_days, currency))
               ELSE Ok(Money(OfferPriceOf(offer_data) * total_days, currency))
        [] booking_type = "Month" ->
             IF Has(external_prices, "L3")
               THEN Ok(Money(Fix(external_prices["L3"]) * total_days, currency))
               ELSE Ok(Money(OfferPriceOf(offer_data) * total_days, currency))

\* variant of MonthsFor: a started month is not counted
MonthsFor_RoundsDown(days) ==
  LET m == days \div 30 IN IF m > 1 THEN m ELSE 1

\* max(1, (days + 29) // 30)
MonthsFor(days) ==
  LET m == (days + 29) \div 30 IN IF m > 1 THEN m ELSE 1

\* OfferPricingService.calculate_documents_offer_price; dates are day numbers
calculate_documents_offer_price(offer_data, current_end_date, new_end_date, currency) ==
  Money(OfferPriceOf(offer_data) * MonthsFor(new_end_date - current_end_date),
        currency)

\* OfferPricingService.calculate_documents_offer_price_for_booking
calculate_documents_offer_price_for_booking(offer_data, booking_type, units, currency) ==
  CASE booking_type \notin BookingType -> Raise("ValueError")
    [] booking_type = "Day" ->
         Ok(Money(OfferPriceOf(offer_data) * MonthsFor(units), currency))
    [] booking_type = "Week" ->
         Ok(Money(OfferPriceOf(offer_data) * MonthsFor(units * DAYS_PER_WEEK),
                  currency))
    [] booking_type = "Month" ->
         Ok(Money(OfferPriceOf(offer_data) * units, currency))

\* OfferPricingService.calculate_offer_price.  dates is a dictionary holding
\* current_end_date / new_end_date when they are given (None otherwise); ext
\* is self.external_offer_prices
calculate_offer_price(ext, offer_data, car_data, booking_type, units, currency, dates, has_discount, discount_percent) ==
  LET offer_type == Get(offer_data, "offerType", Get(offer_data, "type", ""))
      current_car_price ==
        calculate_current_car_price(car_data, booking_type, has_discount,
                                    discount_percent)
      total_days == calculate_total_days(booking_type, units)
  IN  IF offer_type \notin OfferType THEN Raise("ValidationError")
      ELSE IF ~current_car_price.ok THEN current_car_price
      ELSE IF ~total_days.ok THEN total_days
      ELSE CASE offer_type = "Insurance" ->
                  Ok(calculate_insurance_offer_price(current_car_price.value,
                                                     units, currency))
             [] offer_type = "KM" ->
                  Ok(calculate_km_offer_price(current_car_price.value, units,
                                              currency))
             [] offer_type = "ChildChair" ->
                  calculate_child_chair_offer_price(ext, offer_data,
                                                    booking_type, units,
                                                    total_days.value, currency)
             [] offer_type = "Documents" ->
                  IF ~Has(dates, "current_end_date")
                     \/ ~Has(dates, "new_end_date")
                    THEN calculate_documents_offer_price_for_booking(
                           offer_data, booking_type, units, currency)
                    ELSE Ok(calculate_documents_offer_price(
                              offer_data, dates["current_end_date"],
                              dates["new_end_date"], currency))

\* variant of calculate_extension_cost: the units are not multiplied into a
\* custom rate
calculate_extension_cost_CustomRateOnce(car_data, booking_type, units, currency, has_discount, discount_percent, rate) ==
  IF rate["is_custom_rate"] /\ Has(rate, "custom_rate")
    THEN IF rate["custom_rate"] <= 0
           THEN Raise("ValidationError")
           ELSE Ok(Money(Fix(rate["custom_rate"]), currency))
    ELSE LET r == calculate_current_car_price(car_data, booking_type,
                                              has_discount, discount_percent)
         IN  IF r.ok THEN Ok(Money(r.value * units, currency)) ELSE r

\* OfferPricingService.calculate_extension_cost.  rate is a dictionary holding
\* is_custom_rate and, when it is not None, custom_rate
calculate_extension_cost(car_data, booking_type, units, currency, has_discount, discount_percent, rate) ==
  IF rate["is_custom_rate"] /\ Has(rate, "custom_rate")
    THEN IF rate["custom_rate"] <= 0
           THEN Raise("ValidationError")
           ELSE Ok(Money(Fix(rate["custom_rate"]) * units, currency))
    ELSE LET r == calculate_current_car_price(car_data, booking_type,
                                              has_discount, discount_percent)
         IN  IF r.ok THEN Ok(Money(r.value * units, currency)) ELSE r

\* variant of ExtensionOffersFrom: the loop ends at the first offer whose
\* pricing raises (break instead of continue)
RECURSIVE ExtensionOffersFrom_StopsAtFailure(_, _, _, _, _, _, _, _, _, _, _)
ExtensionOffersFrom_StopsAtFailure(ext, offers, car_data, booking_type, units, currency, dates, has_discount, discount_percent, i, acc) ==
  IF i > Len(offers) THEN acc
  ELSE LET offer_cost ==
             calculate_offer_price(ext, offers[i], car_data, booking_type,
                                   units, currency, dates, has_discount,
                                   discount_percent)
           sum == IF offer_cost.ok THEN add(acc.total, offer_cost.value)
                                   ELSE offer_cost
       IN  IF ~sum.ok THEN acc
           ELSE ExtensionOffersFrom_StopsAtFailure(
                  ext, offers, car_data, booking_type, units, currency, dates,
                  has_discount, discount_percent, i + 1,
                  [total |-> sum.value,
                   breakdown |->
                     Append(acc.breakdown,
                            [name |-> Get(offers[i], "offer",
                                          Get(offers[i], "name", "Unknown")),
                             type |-> Get(offers[i], "offerType",
                                          Get(offers[i], "type", "Unknown")),
                             cost |-> offer_cost.value.amount])])

\* the offer loop of calculate_total_extension_cost from offer i on: acc holds
\* total_offers_cost and offer_breakdown; an offer whose pricing raises is
\* skipped (except Exception: continue)
RECURSIVE ExtensionOffersFrom(_, _, _, _, _, _, _, _, _, _, _)
ExtensionOffersFrom(ext, offers, car_data, booking_type, units, currency, dates, has_discount, discount_percent, i, acc) ==
  IF i > Len(offers) THEN acc
  ELSE LET offer_cost ==
             calculate_offer_price(ext, offers[i], car_data, booking_type,
                                   units, currency, dates, has_discount,
                                   discount_percent)
           sum == IF offer_cost.ok THEN add(acc.total, offer_cost.value)
                                   ELSE offer_cost
           next ==
             IF sum.ok
               THEN [total |-> sum.value,
                     breakdown |->
                       Append(acc.breakdown,
                              [name |-> Get(offers[i], "offer",
                                            Get(offers[i], "name", "Unknown")),
                               type |-> Get(offers[i], "offerType",
                                            Get(offers[i], "type", "Unknown")),
                               cost |-> offer_cost.value.amount])]
               ELSE acc
       IN  ExtensionOffersFrom(ext, offers, car_data, booking_type, units,
                               currency, dates, has_discount, discount_percent,
                               i + 1, next)

\* the calculation_details entries whose evaluation can raise
CalculationDetails(car_data, booking_type, units, has_discount, discount_percent, rate) ==
  LET total_days == calculate_total_days(booking_type, units)
      price == calculate_current_car_price(car_data, booking_type,
                                           has_discount, discount_percent)
  IN  IF ~total_days.ok THEN total_days
      ELSE IF rate["is_custom_rate"] THEN Ok(total_days.value)
      ELSE IF ~price.ok THEN price
      ELSE Ok(total_days.value)

\* OfferPricingService.calculate_total_extension_cost
calculate_total_extension_cost(ext, car_data, booking_type, units, offers, currency, dates, has_discount, discount_percent, rate) ==
  LET extension_cost ==
        calculate_extension_cost(car_data, booking_type, units, currency,
                                 has_discount, discount_percent, rate)
      acc == ExtensionOffersFrom(ext, offers, car_data, booking_type, units,
                                 currency, dates, has_discount,
                                 discount_percent, 1,
                                 [total |-> Money(0, currency),
                                  breakdown |-> <<>>])
      subtotal == add(extension_cost.value, acc.total)
      taxes == multiply(subtotal.value, OfferPricing_TAX_RATE)
      total_cost == add(subtotal.value, taxes)
      details == CalculationDetails(car_data, booking_type, units,
                                    has_discount, discount_percent, rate)
  IN  IF ~extension_cost.ok THEN extension_cost
      ELSE IF ~subtotal.ok THEN subtotal
      ELSE IF ~total_cost.ok THEN total_cost
      ELSE IF ~details.ok THEN details
      ELSE Ok([extension_cost |-> extension_cost.value.amount,
               offers_total |-> acc.total.amount,
               offer_breakdown |-> acc.breakdown,
               subtotal |-> subtotal.value.amount,
               taxes |-> taxes.amount,
               total_cost |-> total_cost.value.amount,
               currency |-> currency,
               total_days |-> details.value])

\* ------------------------------------------------------------- Car entity
\* FirebaseCarRepository._parse_money_values: the Car rates built from the
\* stored car document
parse_money_values(data) ==
  LET daily_price == Get(data, "rental_price", 0)
      daily == [daily_rate |->
                  Money(Fix(IF daily_price > 1 THEN daily_price ELSE 1), "SAR")]
      weekly == IF Get(data, "rental_price_week", 0) # 0
                  THEN [weekly_rate |->
                          Money(Fix(data["rental_price_week"]), "SAR")]
                  ELSE EmptyDict
      monthly == IF Get(data, "rental_price_mounth", 0) # 0
                   THEN [monthly_rate |->
                           Money(Fix(data["rental_price_mounth"]), "SAR")]
                   ELSE EmptyDict
  IN  daily @@ weekly @@ monthly

\* Car.get_rate_for_booking_type; car holds daily_rate and, when they are not
\* None, weekly_rate and monthly_rate
get_rate_for_booking_type(a_car, booking_type) ==
  CASE booking_type = "Day" -> Ok(a_car["daily_rate"])
    [] booking_type = "Week" ->
         Ok(IF Has(a_car, "weekly_rate") THEN a_car["weekly_rate"]
            ELSE multiply(a_car["daily_rate"], 7 * 100))
    [] booking_type = "Month" ->
         Ok(IF Has(a_car, "monthly_rate") THEN a_car["monthly_rate"]
            ELSE multiply(a_car["daily_rate"], 30 * 100))
    [] OTHER -> Raise("ValidationError")

\* ------------------------------------------------------------- DateRange
\* Dates are day numbers; a DateRange is built by its constructor only.
\* DateRange.__init__ / __post_init__
DateRange(start_date, end_date) ==
  IF end_date < start_date
    THEN Raise("ValueError")
    ELSE Ok([start_date |-> start_date, end_date |-> end_date])

\* DateRange.duration_days
duration_days(range) == range.end_date - range.start_date

\* DateRange.extend_to
extend_to(range, new_end_date) ==
  IF new_end_date <= range.end_date
    THEN Raise("ValueError")
    ELSE DateRange(range.start_date, new_end_date)

\* -------------------------------------------------------- Contract entity
ContractStatus == {"active", "completed", "cancelled", "extended"}

PaymentStatus == {"pending", "paid", "partial", "failed", "refunded"}

\* variant of Contract.can_extend: an extended contract can be extended too
can_extend_AlsoExtended(self) ==
  /\ self.status \in {"active", "extended"}
  /\ self.payment_status \in {"paid", "partial"}

\* Contract.can_extend
can_extend(self) ==
  self.status = "active" /\ self.payment_status \in {"paid", "partial"}

\* ExtensionDetails (the two timestamps left out)
ExtensionDetails(new_end_date, extension_cost, extension_type, count) ==
  [new_end_date |-> new_end_date, extension_cost |-> extension_cost,
   extension_type |-> extension_type, count |-> count]

\* what a method call on a contract raised or returned, and the contract as
\* the call leaves it
Outcome(result, self) == [result |-> result, self |-> self]

\* variant of Contract.extend: the end date is compared after the totals
\* have been updated
extend_UpdatesBeforeChecking(self, new_end_date, extension_cost, extension_type, count) ==
  IF ~can_extend(self)
    THEN Outcome(Raise("BusinessRuleViolation"), self)
  ELSE IF extension_type \notin {"Day", "Week", "Month"}
    THEN Outcome(Raise("ValidationError"), self)
  ELSE IF count <= 0
    THEN Outcome(Raise("ValidationError"), self)
  ELSE IF extension_cost.amount < 0
    THEN Outcome(Raise("ValidationError"), self)
  ELSE
    LET total == add(self.total_cost, extension_cost)
        s1 == IF total.ok
                THEN [self EXCEPT !.total_cost = total.value,
                                  !.is_extended = TRUE]
                ELSE self
        range == extend_to(self.date_range, new_end_date)
    IN  IF ~total.ok THEN Outcome(total, self)
        ELSE IF ~range.ok THEN Outcome(Raise("ValidationError"), s1)
        ELSE Outcome(Ok("None"),
                     [s1 EXCEPT
                        !.date_range = range.value,
                        !.extension_history =
                          Append(@, ExtensionDetails(new_end_date,
                                                     extension_cost,
                                                     extension_type, count)),
                        !.status = IF @ = "active" THEN "extended" ELSE @])

\* Contract.extend.  The fields are assigned one after the other, so a
\* currency mismatch raised by total_cost.add leaves the new date range set
extend(self, new_end_date, extension_cost, extension_type, count) ==
  IF ~can_extend(self)
    THEN Outcome(Raise("BusinessRuleViolation"), self)
  ELSE IF new_end_date <= self.date_range.end_date
    THEN Outcome(Raise("ValidationError"), self)
  ELSE IF extension_type \notin {"Day", "Week", "Month"}
    THEN Outcome(Raise("ValidationError"), self)
  ELSE IF count <= 0
    THEN Outcome(Raise("ValidationError"), self)
  ELSE IF extension_cost.amount < 0
    THEN Outcome(Raise("ValidationError"), self)
  ELSE
    LET range == extend_to(self.date_range, new_end_date)
        s1 == [self EXCEPT !.date_range = range.value]
        total == add(self.total_cost, extension_cost)
    IN  IF ~total.ok THEN Outcome(total, s1)
        ELSE Outcome(Ok("None"),
                     [s1 EXCEPT
                        !.total_cost = total.value,
                        !.is_extended = TRUE,
                        !.extension_history =
                          Append(@, ExtensionDetails(new_end_date,
                                                     extension_cost,
                                                     extension_type, count)),
                        !.status = IF @ = "active" THEN "extended" ELSE @])

\* ------------------------------------- PricingService: contract extension
\* booking_cost.amount / duration_days * extension_days: a Decimal divided by
\* an int, which raises for a duration of zero days
DailyProRata(a_contract, extension_days) ==
  LET amount == a_contract.booking_cost.amount
      days == duration_days(a_contract.date_range)
  IN  IF days = 0
        THEN Raise(IF amount = 0 THEN "InvalidOperation" ELSE "DivisionByZero")
        ELSE Ok(Money(MulDiv(amount, extension_days, days),
                      a_contract.booking_cost.currency))

\* booking_cost.amount / duration_weeks (or duration_months): a Decimal
\* divided by a float, which Python refuses with a TypeError
FloatProRata(a_contract, extension_days) == Raise("TypeError")

\* PricingService.calculate_extension_cost
PricingService_calculate_extension_cost(a_contract, new_end_date) ==
  IF new_end_date <= a_contract.date_range.end_date
    THEN Raise("ValidationError")
  ELSE
    LET extension_days == new_end_date - a_contract.date_range.end_date
        extension_cost ==
          CASE a_contract.booking_type = "Day" ->
                 DailyProRata(a_contract, extension_days)
            [] a_contract.booking_type = "Week" ->
                 IF extension_days < 7
                   THEN DailyProRata(a_contract, extension_days)
                   ELSE FloatProRata(a_contract, extension_days)
            [] a_contract.booking_type = "Month" ->
                 IF extension_days < 30
                   THEN DailyProRata(a_contract, extension_days)
                   ELSE FloatProRata(a_contract, extension_days)
            [] OTHER -> Raise("ValidationError")
    IN  IF ~extension_cost.ok THEN extension_cost
        ELSE add(extension_cost.value, calculate_taxes(extension_cost.value))

\* ------------------------------------------------------ entity methods
\* None is the string "None"; the timestamps an entity takes from
\* datetime.now() are the string "now".  updated_at is left out.
\* s.strip(), on the strings the callers pass
Strip(s) ==
  CASE s = " " -> ""
    [] s = " Ann " -> "Ann"
    [] s = " +9665 " -> "+9665"
    [] OTHER -> s

\* not s or not s.strip()
Blank(s) == s = "None" \/ s = "" \/ Strip(s) = ""

\* Contract.complete
complete(self) ==
  IF self.status \notin {"active", "extended"}
    THEN Outcome(Raise("BusinessRuleViolation"), self)
  ELSE IF self.payment_status \notin {"paid"}
    THEN Outcome(Raise("BusinessRuleViolation"), self)
  ELSE Outcome(Ok("None"), [self EXCEPT !.status = "completed"])

\* Contract.cancel
ContractCancel(self, reason) ==
  IF self.status = "completed"
    THEN Outcome(Raise("BusinessRuleViolation"), self)
  ELSE IF Blank(reason)
    THEN Outcome(Raise("ValidationError"), self)
  ELSE Outcome(Ok("None"),
               [self EXCEPT
                  !.status = "cancelled",
                  !.booking_details =
                    [cancellation_reason |-> reason, cancelled_at |-> "now"]
                    @@ @])

\* variant of Contract.update_payment_status: a cancelled contract is
\* updated too
update_payment_status_AnyContract(self, status) ==
  Outcome(Ok("None"), [self EXCEPT !.payment_status = status])

\* Contract.update_payment_status (transaction_info left out)
update_payment_status(self, status) ==
  IF self.status = "cancelled"
    THEN Outcome(Raise("BusinessRuleViolation"), self)
    ELSE Outcome(Ok("None"), [self EXCEPT !.payment_status = status])

\* --------------------------------------------------------- Booking entity
BookingStatus ==
  {"pending", "confirmed", "accepted", "denied", "cancelled", "completed"}

\* Booking.can_accept
can_accept(self) == self.status = "pending"

\* Booking.can_deny
can_deny(self) == self.status = "pending"

\* variant of Booking.can_cancel: a denied booking can be cancelled too
can_cancel_AlsoDenied(self) ==
  self.status \in {"pending", "confirmed", "accepted", "denied"}

\* Booking.can_cancel
can_cancel(self) == self.status \in {"pending", "confirmed", "accepted"}

\* Booking.accept
accept(self) ==
  IF ~can_accept(self)
    THEN Outcome(Raise("BusinessRuleViolation"), self)
    ELSE Outcome(Ok("None"),
                 [self EXCEPT !.status = "accepted", !.accepted_at = "now"])

\* Booking.deny
deny(self, reason) ==
  IF ~can_deny(self)
    THEN Outcome(Raise("BusinessRuleViolation"), self)
  ELSE IF Blank(reason)
    THEN Outcome(Raise("ValidationError"), self)
  ELSE Outcome(Ok("None"),
               [self EXCEPT !.status = "denied", !.denied_reason = reason,
                            !.denied_at = "now"])

\* Booking.cancel
BookingCancel(self, reason) ==
  IF ~can_cancel(self)
    THEN Outcome(Raise("BusinessRuleViolation"), self)
    ELSE Outcome(Ok("None"),
                 [self EXCEPT
                    !.status = "cancelled",
                    !.booking_details =
                      IF reason \notin {"None", ""}
                        THEN [cancellation_reason |-> reason,
                              cancelled_at |-> "now"] @@ @
                        ELSE @])

\* Booking.update_dates
update_dates(self, new_date_range) ==
  IF self.status \notin {"pending", "confirmed"}
    THEN Outcome(Raise("BusinessRuleViolation"), self)
    ELSE Outcome(Ok("None"), [self EXCEPT !.date_range = new_date_range])

\* Booking.update_car
update_car(self, new_car_id, new_booking_cost, new_total_cost) ==
  IF self.status \notin {"pending", "confirmed", "accepted"}
    THEN Outcome(Raise("BusinessRuleViolation"), self)
  ELSE IF Blank(new_car_id)
    THEN Outcome(Raise("ValidationError"), self)
  ELSE IF new_booking_cost.amount < 0
    THEN Outcome(Raise("ValidationError"), self)
  ELSE IF new_total_cost.amount < 0
    THEN Outcome(Raise("ValidationError"), self)
  ELSE Outcome(Ok("None"),
               [self EXCEPT !.car_id = new_car_id,
                            !.booking_cost = new_booking_cost,
                            !.total_cost = new_total_cost])

\* Booking.update_locations
update_locations(self, new_locations) ==
  IF self.status \notin {"pending", "confirmed"}
    THEN Outcome(Raise("BusinessRuleViolation"), self)
    ELSE Outcome(Ok("None"), [self EXCEPT !.locations = new_locations])

\* ------------------------------------------------------------ User entity
UserStatus == {"active", "inactive", "suspended", "pending_verification"}

\* User.can_make_bookings
can_make_bookings(self) ==
  self.status = "active" /\ self.email_verified /\ self.phone_verified

\* User.activate
activate(self) ==
  IF ~self.email_verified \/ ~self.phone_verified
    THEN Outcome(Raise("BusinessRuleViolation"), self)
  ELSE IF self.status = "suspended"
    THEN Outcome(Raise("BusinessRuleViolation"), self)
  ELSE Outcome(Ok("None"), [self EXCEPT !.status = "active"])

\* User.suspend
suspend(self, reason) ==
  IF Blank(reason)
    THEN Outcome(Raise("ValidationError"), self)
  ELSE IF self.status = "suspended"
    THEN Outcome(Raise("BusinessRuleViolation"), self)
  ELSE Outcome(Ok("None"),
               [self EXCEPT
                  !.status = "suspended",
                  !.user_data =
                    [suspension_reason |-> reason, suspended_at |-> "now"]
                    @@ @])

\* User.deactivate
deactivate(self) ==
  IF self.status = "suspended"
    THEN Outcome(Raise("BusinessRuleViolation"), self)
    ELSE Outcome(Ok("None"), [self EXCEPT !.status = "inactive"])

\* User.verify_email
verify_email(self) ==
  LET s1 == [self EXCEPT !.email_verified = TRUE]
  IN  Outcome(Ok("None"),
              IF s1.phone_verified /\ s1.status = "pending_verification"
                THEN [s1 EXCEPT !.status = "active"]
                ELSE s1)

\* variant of User.verify_phone: the flag is set and the status is left alone
verify_phone_FlagOnly(self) ==
  Outcome(Ok("None"), [self EXCEPT !.phone_verified = TRUE])

\* User.verify_phone
verify_phone(self) ==
  LET s1 == [self EXCEPT !.phone_verified = TRUE]
  IN  Outcome(Ok("None"),
              IF s1.email_verified /\ s1.status = "pending_verification"
                THEN [s1 EXCEPT !.status = "active"]
                ELSE s1)

\* User.add_to_wallet
add_to_wallet(self, amount) ==
  IF amount.currency # self.wallet_balance.currency
    THEN Outcome(Raise("ValidationError"), self)
  ELSE IF amount.amount <= 0
    THEN Outcome(Raise("ValidationError"), self)
  ELSE LET sum == add(self.wallet_balance, amount)
       IN  IF ~sum.ok THEN Outcome(sum, self)
           ELSE Outcome(Ok("None"), [self EXCEPT !.wallet_balance = sum.value])

\* variant of User.deduct_from_wallet: the balance is not compared with the
\* amount
deduct_from_wallet_Overdraws(self, amount) ==
  IF amount.currency # self.wallet_balance.currency
    THEN Outcome(Raise("ValidationError"), self)
  ELSE IF amount.amount <= 0
    THEN Outcome(Raise("ValidationError"), self)
  ELSE LET rest == subtract(self.wallet_balance, amount)
       IN  IF ~rest.ok THEN Outcome(rest, self)
           ELSE Outcome(Ok("None"),
                        [self EXCEPT !.wallet_balance = rest.value])

\* User.deduct_from_wallet
deduct_from_wallet(self, amount) ==
  IF amount.currency # self.wallet_balance.currency
    THEN Outcome(Raise("ValidationError"), self)
  ELSE IF amount.amount <= 0
    THEN Outcome(Raise("ValidationError"), self)
  ELSE IF self.wallet_balance.amount < amount.amount
    THEN Outcome(Raise("BusinessRuleViolation"), self)
  ELSE LET rest == subtract(self.wallet_balance, amount)
       IN  IF ~rest.ok THEN Outcome(rest, self)
           ELSE Outcome(Ok("None"),
                        [self EXCEPT !.wallet_balance = rest.value])

\* User.update_profile; kw holds the arguments that are not None.  The
\* fields are assigned one after the other, so an argument that raises
\* leaves the earlier ones set
update_profile(self, kw) ==
  LET s1 == IF Has(kw, "first_name")
              THEN [self EXCEPT !.first_name = Strip(kw["first_name"])]
              ELSE self
      s2 == IF Has(kw, "last_name")
              THEN [s1 EXCEPT !.last_name = Strip(kw["last_name"])]
              ELSE s1
      s3 == IF Has(kw, "phone_number")
              THEN [s2 EXCEPT !.phone_number = Strip(kw["phone_number"]),
                              !.phone_verified = FALSE]
              ELSE s2
      s4 == IF Has(kw, "preferred_language")
              THEN [s3 EXCEPT
                      !.preferred_language = kw["preferred_language"]]
              ELSE s3
  IN  IF Has(kw, "first_name") /\ Strip(kw["first_name"]) = ""
        THEN Outcome(Raise("ValidationError"), self)
      ELSE IF Has(kw, "last_name") /\ Strip(kw["last_name"]) = ""
        THEN Outcome(Raise("ValidationError"), s1)
      ELSE IF Has(kw, "phone_number") /\ Strip(kw["phone_number"]) = ""
        THEN Outcome(Raise("ValidationError"), s2)
      ELSE IF /\ Has(kw, "preferred_language")
              /\ kw["preferred_language"] \notin {"en", "ar"}
        THEN Outcome(Raise("ValidationError"), s3)
      ELSE Outcome(Ok("None"), s4)

\* ------------------------------------------------------------- Car entity
CarStatus == {"available", "rented", "maintenance", "out_of_service"}

\* Car.is_available
is_available(self) == self.status = "available"

\* variant of Car.mark_as_rented: only a rented car is refused
mark_as_rented_UnlessRented(self) ==
  IF self.status = "rented"
    THEN Outcome(Raise("BusinessRuleViolation"), self)
    ELSE Outcome(Ok("None"), [self EXCEPT !.status = "rented"])

\* Car.mark_as_rented
mark_as_rented(self) ==
  IF ~is_available(self)
    THEN Outcome(Raise("BusinessRuleViolation"), self)
    ELSE Outcome(Ok("None"), [self EXCEPT !.status = "rented"])

\* Car.mark_as_available
mark_as_available(self) ==
  IF self.status = "out_of_service"
    THEN Outcome(Raise("BusinessRuleViolation"), self)
    ELSE Outcome(Ok("None"), [self EXCEPT !.status = "available"])

\* Car.send_for_maintenance
send_for_maintenance(self, reason) ==
  IF self.status = "rented"
    THEN Outcome(Raise("BusinessRuleViolation"), self)
    ELSE Outcome(Ok("None"),
                 [self EXCEPT
                    !.status = "maintenance",
                    !.car_data =
                      IF reason \notin {"None", ""}
                        THEN [maintenance_reason |-> reason,
                              maintenance_started |-> "now"] @@ @
                        ELSE @])

\* dict.pop(key, None), for each key of keys
Pop(d, keys) == [k \in DOMAIN d \ keys |-> d[k]]

\* Car.complete_maintenance; kw holds the arguments that are not None.
\* mileage is None in the car when the key is absent
complete_maintenance(self, kw) ==
  IF self.status # "maintenance"
    THEN Outcome(Raise("BusinessRuleViolation"), self)
  ELSE IF Has(kw, "mileage") /\ kw["mileage"] < Get(self, "mileage", 0)
    THEN Outcome(Raise("ValidationError"), self)
  ELSE
    LET s1 == IF Has(kw, "mileage")
                THEN [mileage |-> kw["mileage"]] @@ self
                ELSE self
        s2 == IF Has(kw, "next_service_date")
                THEN [s1 EXCEPT
                        !.next_service_date = kw["next_service_date"]]
                ELSE s1
    IN  Outcome(Ok("None"),
                [s2 EXCEPT
                   !.status = "available",
                   !.last_service_date = "now",
                   !.car_data =
                     [last_maintenance_completed |-> "now"]
                     @@ Pop(@, {"maintenance_reason",
                                "maintenance_started"})])

\* Car.put_out_of_service
put_out_of_service(self, reason) ==
  IF Blank(reason)
    THEN Outcome(Raise("ValidationError"), self)
  ELSE IF self.status = "rented"
    THEN Outcome(Raise("BusinessRuleViolation"), self)
  ELSE Outcome(Ok("None"),
               [self EXCEPT
                  !.status = "out_of_service",
                  !.car_data =
                    [out_of_service_reason |-> reason,
                     out_of_service_date |-> "now"] @@ @])

\* Car.return_to_service
return_to_service(self) ==
  IF self.status # "out_of_service"
    THEN Outcome(Raise("BusinessRuleViolation"), self)
    ELSE Outcome(Ok("None"),
                 [self EXCEPT
                    !.status = "available",
                    !.car_data =
                      [returned_to_service_date |-> "now"]
                      @@ Pop(@, {"out_of_service_reason",
                                 "out_of_service_date"})])

\* ---------------------------------------------------------- WalletService
\* The user document holds Wallet_Balance and the Transaction_history
\* subcollection.  Balances and amounts are whole currency units (float in
\* the document, Decimal(str(...)) in the service).
\* the record written to Transaction_history; id names the new document
TransactionData(action, id, amount, current_balance, new_balance) ==
  [id |-> id, action |-> action, amount |-> amount,
   previousBalance |-> current_balance, newBalance |-> new_balance]

\* what a transaction function does on the document it read: it raises, or
\* it asks for an update of Wallet_Balance and a new history record
Writes(update, record) == Ok([Wallet_Balance |-> update, record |-> record])

\* add_money_transaction, the function add_money_to_wallet runs in the
\* transaction
add_money_transaction(user_doc, id, amount) ==
  IF ~user_doc.exists THEN Raise("User not found")
  ELSE LET current_balance == user_doc.Wallet_Balance
           new_balance == current_balance + amount
       IN  Writes(new_balance,
                  TransactionData("add", id, amount, current_balance,
                                  new_balance))

\* variant of deduct_money_transaction: the balance is not compared with
\* the amount
deduct_money_transaction_NoBalanceCheck(user_doc, id, amount) ==
  IF ~user_doc.exists THEN Raise("User not found")
  ELSE LET current_balance == user_doc.Wallet_Balance
           new_balance == current_balance - amount
       IN  Writes(new_balance,
                  TransactionData("deduct", id, amount, current_balance,
                                  new_balance))

\* deduct_money_transaction, the function deduct_money_from_wallet runs in
\* the transaction
deduct_money_transaction(user_doc, id, amount) ==
  IF ~user_doc.exists THEN Raise("User not found")
  ELSE LET current_balance == user_doc.Wallet_Balance
       IN  IF current_balance < amount THEN Raise("Insufficient balance")
           ELSE LET new_balance == current_balance - amount
                IN  Writes(new_balance,
                           TransactionData("deduct", id, amount,
                                           current_balance, new_balance))

\* the dictionary returned after the transaction
Success(record) ==
  [success |-> TRUE,
   wallet |-> [previousBalance |-> record.previousBalance,
               newBalance |-> record.newBalance],
   transactionId |-> record.id]

\* the dictionary returned by the except branch
Failure(error) == [success |-> FALSE, error |-> error]

\* ----------------------------------------------------------------- inputs
\* a dictionary holding key k with a value of S, or not holding it
Opt(k, S) == {EmptyDict} \cup {k :> v : v \in S}

BookingTypeArgs == BookingType \cup {"Year"}

Counts == 1..MaxCount

DiscountPercents == {-10, 0, 10, 50, 100, 150}

PackageTable == <<[packageMonths |-> 3, priceB4Discount |-> 2400],
                  [packageMonths |-> 6, priceB4Discount |-> 4200]>>

\* car documents as stored: every combination of the rate fields
RateCars ==
  {a @@ b @@ c @@ d @@ e @@ f :
     a \in Opt("rental_price_day", {100}),
     b \in Opt("rental_price", {50}),
     c \in Opt("rental_price_week", {0, 300}),
     d \in Opt("rental_price_month", {1000}),
     e \in Opt("rental_price_mounth", {1200}),
     f \in Opt("booked_day_price", {-5, 0, 40})}

\* the cars used in the aggregate calculations
BookingCars ==
  {[rental_price_day |-> 100],
   [rental_price |-> 50, rental_price_week |-> 300,
    rental_price_month |-> 1000],
   [rental_price_day |-> 100, Currency |-> "usd", Packages |-> PackageTable],
   [rental_price_day |-> 50, rental_price_week |-> 0, booked_day_price |-> 40]}

Offers ==
  {[type |-> "Insurance"],
   [type |-> "insurance", percentage |-> 20],
   [offerType |-> "KM"],
   [type |-> "km_package"],
   [type |-> "ChildChair", name |-> "seat", price |-> 5],
   [offerType |-> "ChildChair", offer |-> "seat", offerPrice |-> 5],
   [type |-> "child_chair", daily_rate |-> 5, days |-> 2],
   [type |-> "Documents", price |-> 100],
   [type |-> "Gadget", price |-> 30]}

\* the offers that occur in batches
BatchOffers ==
  {[type |-> "Insurance"],
   [type |-> "insurance", percentage |-> 20],
   [type |-> "km_package"],
   [type |-> "ChildChair", name |-> "seat", price |-> 5],
   [type |-> "Documents", price |-> 100],
   [type |-> "Gadget", price |-> 30]}

OfferLists == UNION {[1..n -> BatchOffers] : n \in 0..MaxOffers}

DateSet == {15 * d : d \in 0..MaxDay}

DateArgs ==
  {EmptyDict} \cup {[current_end_date |-> 0]}
  \cup {[current_end_date |-> 0, new_end_date |-> n] : n \in DateSet \ {0}}

ExternalPrices ==
  {EmptyDict,
   [seat |-> EmptyDict],
   [seat |-> [L2 |-> 4]],
   [seat |-> [L3 |-> 3]],
   [seat |-> [L2 |-> 4, L3 |-> 3]]}

\* day counts around every month boundary up to MaxMonths months
DocDays == UNION {{30 * k - 1, 30 * k, 30 * k + 1} : k \in 0..MaxMonths}

DocUnits == {d \in DocDays : d > 0}

DocumentsOffers ==
  {[type |-> "Documents", price |-> 100],
   [offerType |-> "Documents", offerPrice |-> 120, price |-> 100]}

ChildChairOffers ==
  {[name |-> "seat", price |-> 5],
   [price |-> 5],
   [offer |-> "booster", name |-> "seat", offerPrice |-> 6, price |-> 5]}

PackageArgs ==
  {[is_package_booking |-> FALSE, package_months |-> 0],
   [is_package_booking |-> TRUE, package_months |-> 0],
   [is_package_booking |-> TRUE, package_months |-> 3],
   [is_package_booking |-> TRUE, package_months |-> 12]}

RateArgs ==
  {[is_custom_rate |-> FALSE],
   [is_custom_rate |-> TRUE],
   [is_custom_rate |-> TRUE, custom_rate |-> 0],
   [is_custom_rate |-> TRUE, custom_rate |-> 80],
   [is_custom_rate |-> FALSE, custom_rate |-> 80]}

\* end dates: none, one week, two weeks, one month and two months after the
\* start
EndDates == {0, 7, 14, 30, 60}

\* the dates asked of an extension quote: the end dates and three days later
QuoteDates == EndDates \cup {d + 3 : d \in EndDates}

\* the contracts a repository can hand out: every one passes
\* Contract.validate
Contracts ==
  {[date_range |-> DateRange(0, end_date).value,
    booking_type |-> booking_type,
    count |-> 1,
    booking_cost |-> Money(Fix(booking_cost), "SAR"),
    total_cost |-> Money(Fix(booking_cost), "SAR"),
    status |-> status,
    payment_status |-> payment_status,
    is_extended |-> FALSE,
    extension_history |-> <<>>] :
     end_date \in {0, 7, 30}, booking_type \in BookingType,
     booking_cost \in {0, 2100}, status \in ContractStatus,
     payment_status \in PaymentStatus}

ExtensionCosts ==
  {Money(Fix(-10), "SAR"), Money(Fix(0), "SAR"), Money(Fix(300), "SAR"),
   Money(Fix(300), "USD")}

\* amounts as their constructor arguments give them: 0, 5, -5, 0.01, 120,
\* 1E+25, 1E+26, 1E+28, a coefficient of 29 digits, NaN and the infinities
Decimals ==
  {Finite(0, <<>>, 0), Finite(0, <<5>>, 0), Finite(1, <<5>>, 0),
   Finite(0, <<1>>, -2), Finite(0, <<1, 2, 0>>, 0), Finite(0, <<1>>, 25),
   Finite(0, <<1>>, 26), Finite(0, <<1>>, 28),
   Finite(0, <<1>> \o Zeros(27) \o <<1>>, 0),
   NaN, Infinity(0), Infinity(1)}

MoneyValues ==
  {Money(amount, currency) :
     amount \in Decimals, currency \in {"SAR", "sar", "USD"}}

Requests == 1..MaxRequests

\* amounts of the Money values passed: negative, zero and positive
WalletAmounts == {-50, 0, 30, 50}

\* a request that has not been made yet
NoRequest ==
  [pc |-> "new", action |-> "none", amount |-> 0, adminUserId |-> "None",
   attempts |-> 0, version |-> 0, writes |-> EmptyDict, result |-> EmptyDict]

\* the contracts, bookings, users and cars as their constructors build them
\* with the status fields left at their defaults; each passes validate()
NewContracts ==
  {[date_range |-> DateRange(0, 7).value,
    booking_type |-> "Day",
    count |-> 1,
    booking_cost |-> Money(Fix(booking_cost), "SAR"),
    total_cost |-> Money(Fix(booking_cost), "SAR"),
    status |-> "active",
    payment_status |-> "pending",
    is_extended |-> FALSE,
    extension_history |-> <<>>,
    booking_details |-> EmptyDict] : booking_cost \in {0, 2100}}

Reasons == {"None", "", " ", "on request"}

NewBookings ==
  {[car_id |-> "car-1",
    date_range |-> DateRange(0, 7).value,
    locations |-> "airport",
    booking_cost |-> Money(Fix(booking_cost), "SAR"),
    total_cost |-> Money(Fix(booking_cost), "SAR"),
    status |-> "pending",
    denied_reason |-> "None",
    accepted_at |-> "None",
    denied_at |-> "None",
    booking_details |-> EmptyDict] : booking_cost \in {0, 2100}}

CarIds == {"None", " ", "car-2"}

BookingCosts ==
  {Money(Fix(-10), "SAR"), Money(Fix(0), "SAR"), Money(Fix(300), "SAR")}

NewUsers ==
  {[first_name |-> "Ann",
    last_name |-> "Lee",
    phone_number |-> "+9661",
    preferred_language |-> "en",
    status |-> "pending_verification",
    wallet_balance |-> Money(Fix(wallet_balance), "SAR"),
    email_verified |-> FALSE,
    phone_verified |-> FALSE,
    user_data |-> EmptyDict] : wallet_balance \in {0, 40}}

\* the amounts added to and deducted from User.wallet_balance
UserAmounts ==
  {Money(Fix(-10), "SAR"), Money(Fix(0), "SAR"), Money(Fix(30), "SAR"),
   Money(Fix(50), "SAR"), Money(Fix(30), "USD")}

ProfileArgs ==
  {a @@ b @@ c @@ d :
     a \in Opt("first_name", {" ", " Ann "}),
     b \in Opt("last_name", {" "}),
     c \in Opt("phone_number", {" ", " +9665 "}),
     d \in Opt("preferred_language", {"fr", "ar"})}

NewCars ==
  {[status |-> "available",
    last_service_date |-> "None",
    next_service_date |-> "None",
    car_data |-> EmptyDict] @@ m : m \in Opt("mileage", {100})}

MaintenanceArgs ==
  {a @@ b : a \in Opt("mileage", {50, 100}),
            b \in Opt("next_service_date", {"next year"})}

DiscountArgs ==
  {[has_discount |-> FALSE, discount_percent |-> 10],
   [has_discount |-> TRUE, discount_percent |-> 10],
   [has_discount |-> TRUE, discount_percent |-> 150]}

\* ---------------------------------------------------------- state machine
\* A request is one call of a service method: the service is idle, the call
\* records its arguments and what it returned or raised.
Init ==
  /\ pc = "idle"
  /\ op = "none"
  /\ args = EmptyDict
  /\ ret = EmptyDict
  /\ external_offer_prices = EmptyDict
  /\ contract = EmptyDict
  /\ wallet = EmptyDict
  /\ requests = EmptyDict
  /\ booking = EmptyDict
  /\ user = EmptyDict
  /\ car = EmptyDict

Return(o, a, r) ==
  /\ pc' = "done"
  /\ op' = o
  /\ args' = a
  /\ ret' = r
  /\ UNCHANGED <<external_offer_prices, contract, wallet, requests, booking,
               user, car>>

\* OfferPricingService.set_external_offer_prices
set_external_offer_prices ==
  /\ pc = "idle"
  /\ \E offer_prices \in ExternalPrices :
       external_offer_prices' = offer_prices
  /\ UNCHANGED <<pc, op, args, ret, contract, wallet, requests, booking,
               user, car>>

Call_calculate_base_price ==
  /\ pc = "idle"
  /\ \E car_data \in RateCars, booking_type \in BookingTypeArgs,
        count \in Counts :
       Return("calculate_base_price",
              [car_data |-> car_data, booking_type |-> booking_type,
               count |-> count],
              calculate_base_price(car_data, booking_type, count))

Call_calculate_total_booking_cost ==
  /\ pc = "idle"
  /\ \E car_data \in BookingCars, booking_type \in BookingTypeArgs,
        count \in Counts, discount_percent \in {-10, 0, 10, 150},
        delivery_fee \in {0, 50}, offers \in OfferLists,
        package \in PackageArgs :
       Return("calculate_total_booking_cost",
              [car_data |-> car_data, booking_type |-> booking_type,
               count |-> count, discount_percent |-> discount_percent,
               delivery_fee |-> delivery_fee, offers |-> offers,
               is_package_booking |-> package.is_package_booking,
               package_months |-> package.package_months],
              calculate_total_booking_cost(
                car_data, booking_type, count, discount_percent, delivery_fee,
                offers, package.is_package_booking, package.package_months))

Call_calculate_current_car_price ==
  /\ pc = "idle"
  /\ \E car_data \in RateCars, booking_type \in BookingTypeArgs,
        has_discount \in BOOLEAN, discount_percent \in DiscountPercents :
       Return("calculate_current_car_price",
              [car_data |-> car_data, booking_type |-> booking_type,
               has_discount |-> has_discount,
               discount_percent |-> discount_percent],
              calculate_current_car_price(car_data, booking_type, has_discount,
                                          discount_percent))

Call_calculate_offer_price ==
  /\ pc = "idle"
  /\ \E offer_data \in Offers, car_data \in BookingCars,
        booking_type \in BookingTypeArgs, units \in Counts,
        currency \in {"SAR", "usd"}, dates \in DateArgs,
        discount \in DiscountArgs :
       Return("calculate_offer_price",
              [offer_data |-> offer_data, car_data |-> car_data,
               booking_type |-> booking_type, units |-> units,
               currency |-> currency, dates |-> dates,
               has_discount |-> discount.has_discount,
               discount_percent |-> discount.discount_percent],
              calculate_offer_price(
                external_offer_prices, offer_data, car_data, booking_type,
                units, currency, dates, discount.has_discount,
                discount.discount_percent))

Call_calculate_total_extension_cost ==
  /\ pc = "idle"
  /\ \E car_data \in BookingCars, booking_type \in BookingTypeArgs,
        units \in Counts, offers \in OfferLists,
        dates \in {EmptyDict, [current_end_date |-> 0, new_end_date |-> 15]},
        discount \in DiscountArgs, rate \in RateArgs :
       Return("calculate_total_extension_cost",
              [car_data |-> car_data, booking_type |-> booking_type,
               units |-> units, offers |-> offers, currency |-> "SAR",
               dates |-> dates, has_discount |-> discount.has_discount,
               discount_percent |-> discount.discount_percent, rate |-> rate],
              calculate_total_extension_cost(
                external_offer_prices, car_data, booking_type, units, offers,
                "SAR", dates, discount.has_discount,
                discount.discount_percent, rate))

\* the caller passes the total days of the booking, as calculate_offer_price
\* does
Call_calculate_child_chair_offer_price ==
  /\ pc = "idle"
  /\ \E offer_data \in ChildChairOffers, booking_type \in BookingTypeArgs,
        units \in Counts, currency \in {"SAR", "usd"} :
       LET days == calculate_total_days(booking_type, units)
           total_days == IF days.ok THEN days.value ELSE units
       IN  Return("calculate_child_chair_offer_price",
                  [offer_data |-> offer_data, booking_type |-> booking_type,
                   units |-> units, total_days |-> total_days,
                   currency |-> currency],
                  calculate_child_chair_offer_price(
                    external_offer_prices, offer_data, booking_type, units,
                    total_days, currency))

Call_calculate_documents_offer_price ==
  /\ pc = "idle"
  /\ \E offer_data \in DocumentsOffers, current_end_date \in {0, 10},
        days \in DocDays, currency \in {"SAR", "usd"} :
       Return("calculate_documents_offer_price",
              [offer_data |-> offer_data,
               current_end_date |-> current_end_date,
               new_end_date |-> current_end_date + days,
               currency |-> currency],
              Ok(calculate_documents_offer_price(
                   offer_data, current_end_date, current_end_date + days,
                   currency)))

Call_calculate_documents_offer_price_for_booking ==
  /\ pc = "idle"
  /\ \E offer_data \in DocumentsOffers, booking_type \in BookingTypeArgs,
        units \in DocUnits, currency \in {"SAR", "usd"} :
       Return("calculate_documents_offer_price_for_booking",
              [offer_data |-> offer_data, booking_type |-> booking_type,
               units |-> units, currency |-> currency],
              calculate_documents_offer_price_for_booking(
                offer_data, booking_type, units, currency))

Call_Money_add ==
  /\ pc = "idle"
  /\ \E a \in MoneyValues, b \in MoneyValues :
       Return("Money.add", [self |-> a, other |-> b], Money_add(a, b))

Call_Money_subtract ==
  /\ pc = "idle"
  /\ \E a \in MoneyValues, b \in MoneyValues :
       Return("Money.subtract", [self |-> a, other |-> b],
              Money_subtract(a, b))

\* a.add(b).subtract(b)
Call_Money_add_subtract ==
  /\ pc = "idle"
  /\ \E a \in MoneyValues, b \in MoneyValues :
       LET sum == Money_add(a, b)
       IN  Return("Money.add.subtract", [self |-> a, other |-> b],
                  IF sum.ok THEN Money_subtract(sum.value, b) ELSE sum)

\* the repository builds the Car from the stored document; the caller asks
\* the Car for its rate
Call_get_rate_for_booking_type ==
  /\ pc = "idle"
  /\ \E car_data \in RateCars, booking_type \in BookingTypeArgs :
       Return("get_rate_for_booking_type",
              [car_data |-> car_data, booking_type |-> booking_type],
              get_rate_for_booking_type(parse_money_values(car_data),
                                        booking_type))

Next ==
  \/ set_external_offer_prices
  \/ Call_calculate_base_price
  \/ Call_calculate_total_booking_cost
  \/ Call_calculate_current_car_price
  \/ Call_calculate_offer_price
  \/ Call_calculate_child_chair_offer_price
  \/ Call_calculate_documents_offer_price
  \/ Call_calculate_documents_offer_price_for_booking
  \/ Call_calculate_total_extension_cost
  \/ Call_get_rate_for_booking_type
  \/ Call_Money_add
  \/ Call_Money_subtract
  \/ Call_Money_add_subtract

Spec == Init /\ [][Next]_vars

Done(o) == pc = "done" /\ op = o

\* ------------------------------------------- state machine of a contract
\* One contract, loaded from the repository; the callers invoke its methods
\* and ask PricingService for extension quotes, one call after the other.
ContractInit ==
  /\ pc = "idle"
  /\ op = "none"
  /\ args = EmptyDict
  /\ ret = EmptyDict
  /\ external_offer_prices = EmptyDict
  /\ contract \in Contracts
  /\ wallet = EmptyDict
  /\ requests = EmptyDict
  /\ booking = EmptyDict
  /\ user = EmptyDict
  /\ car = EmptyDict

\* the entity has been built
Loaded(entity) == DOMAIN entity # {}

\* Contract.extend
Contract_extend ==
  /\ Loaded(contract)
  /\ \E new_end_date \in EndDates, extension_cost \in ExtensionCosts,
     extension_type \in {"Day", "Year"}, count \in {0, 1} :
    LET out == extend(contract, new_end_date, extension_cost, extension_type,
                      count)
    IN  /\ pc' = "done"
        /\ op' = "extend"
        /\ args' = [self |-> contract, new_end_date |-> new_end_date,
                    extension_cost |-> extension_cost,
                    extension_type |-> extension_type, count |-> count]
        /\ ret' = out.result
        /\ contract' = out.self
        /\ UNCHANGED <<external_offer_prices, wallet, requests, booking, user,
                     car>>

\* contract.date_range.extend_to
Call_extend_to ==
  \E new_end_date \in EndDates :
    Return("extend_to",
           [self |-> contract, new_end_date |-> new_end_date],
           extend_to(contract.date_range, new_end_date))

Call_PricingService_calculate_extension_cost ==
  \E new_end_date \in QuoteDates :
    Return("PricingService.calculate_extension_cost",
           [self |-> contract, new_end_date |-> new_end_date],
           PricingService_calculate_extension_cost(contract, new_end_date))

ContractNext ==
  \/ Contract_extend
  \/ Call_extend_to
  \/ Call_PricingService_calculate_extension_cost

SpecContract == ContractInit /\ [][ContractNext]_vars

TypeOK ==
  /\ pc \in {"idle", "done"}
  /\ external_offer_prices \in ExternalPrices

\* ------------------------------------------ state machine of one wallet
\* Requests on one user's wallet run concurrently.  A request obtains the
\* database, runs its transaction function on the document it reads, and
\* returns.  The store decides the transaction: the writes are applied
\* together if the document has not changed since it was read, otherwise
\* the function runs again on a fresh read or the transaction fails.
WalletInit ==
  /\ pc = "idle"
  /\ op = "none"
  /\ args = EmptyDict
  /\ ret = EmptyDict
  /\ external_offer_prices = EmptyDict
  /\ contract = EmptyDict
  /\ \E exists \in BOOLEAN :
       wallet = [exists |-> exists, Wallet_Balance |-> 40, version |-> 0,
                 Transaction_history |-> <<>>, opening_balance |-> 40]
  /\ requests = [r \in Requests |-> NoRequest]
  /\ booking = EmptyDict
  /\ user = EmptyDict
  /\ car = EmptyDict

WalletUnchanged ==
  UNCHANGED <<pc, op, args, ret, external_offer_prices, contract, booking,
              user, car>>

\* the request returns the dictionary
Returned(r, result) ==
  requests' = [requests EXCEPT ![r].pc = "returned", ![r].result = result]

\* WalletService.add_money_to_wallet up to db.transaction()
add_money_to_wallet(r) ==
  /\ requests[r].pc = "new"
  /\ \E amount \in WalletAmounts, db \in BOOLEAN :
       IF db
         THEN requests' = [requests EXCEPT ![r].pc = "started",
                                           ![r].action = "add",
                                           ![r].amount = amount,
                                           ![r].adminUserId = "system"]
         ELSE requests' = [requests EXCEPT
                             ![r].pc = "returned",
                             ![r].action = "add",
                             ![r].amount = amount,
                             ![r].adminUserId = "system",
                             ![r].result =
                               Failure("Database connection failed")]
  /\ UNCHANGED wallet
  /\ WalletUnchanged

\* WalletService.deduct_money_from_wallet up to db.transaction()
deduct_money_from_wallet(r) ==
  /\ requests[r].pc = "new"
  /\ \E amount \in WalletAmounts, db \in BOOLEAN :
       IF db
         THEN requests' = [requests EXCEPT ![r].pc = "started",
                                           ![r].action = "deduct",
                                           ![r].amount = amount,
                                           ![r].adminUserId = "system"]
         ELSE requests' = [requests EXCEPT
                             ![r].pc = "returned",
                             ![r].action = "deduct",
                             ![r].amount = amount,
                             ![r].adminUserId = "system",
                             ![r].result =
                               Failure("Database connection failed")]
  /\ UNCHANGED wallet
  /\ WalletUnchanged

\* WalletService.process_refund: add_money_to_wallet with the refund amount
\* and admin_user_id "system-refund", up to db.transaction()
process_refund(r) ==
  /\ requests[r].pc = "new"
  /\ \E refund_amount \in WalletAmounts, db \in BOOLEAN :
       IF db
         THEN requests' = [requests EXCEPT ![r].pc = "started",
                                           ![r].action = "add",
                                           ![r].amount = refund_amount,
                                           ![r].adminUserId = "system-refund"]
         ELSE requests' = [requests EXCEPT
                             ![r].pc = "returned",
                             ![r].action = "add",
                             ![r].amount = refund_amount,
                             ![r].adminUserId = "system-refund",
                             ![r].result =
                               Failure("Database connection failed")]
  /\ UNCHANGED wallet
  /\ WalletUnchanged

\* the transaction function of the request, applied to the document read
TransactionFunction(r) ==
  IF requests[r].action = "add"
    THEN add_money_transaction(wallet, r, requests[r].amount)
    ELSE deduct_money_transaction(wallet, r, requests[r].amount)

\* the transaction function runs (attempts counts its runs): an exception
\* ends the request in the except branch, otherwise its writes wait for the
\* commit
Transaction_run(r) ==
  /\ requests[r].pc = "started"
  /\ LET out == TransactionFunction(r)
     IN  IF out.ok
           THEN requests' = [requests EXCEPT ![r].pc = "writing",
                                             ![r].attempts = @ + 1,
                                             ![r].version = wallet.version,
                                             ![r].writes = out.value]
           ELSE requests' = [requests EXCEPT
                               ![r].pc = "returned",
                               ![r].attempts = @ + 1,
                               ![r].result = Failure(out.error)]
  /\ UNCHANGED wallet
  /\ WalletUnchanged

\* the document is as it was read: the writes are applied together
Transaction_commit(r) ==
  /\ requests[r].pc = "writing"
  /\ requests[r].version = wallet.version
  /\ wallet' = [wallet EXCEPT
                  !.Wallet_Balance = requests[r].writes.Wallet_Balance,
                  !.Transaction_history =
                    Append(@, requests[r].writes.record),
                  !.version = @ + 1]
  /\ Returned(r, Success(requests[r].writes.record))
  /\ WalletUnchanged

\* the document has changed since it was read: the function runs again
Transaction_retry(r) ==
  /\ requests[r].pc = "writing"
  /\ requests[r].version # wallet.version
  /\ requests' = [requests EXCEPT ![r].pc = "started",
                                   ![r].version = 0,
                                   ![r].writes = EmptyDict]
  /\ UNCHANGED wallet
  /\ WalletUnchanged

\* the document has changed since it was read and the store gives up
Transaction_abort(r) ==
  /\ requests[r].pc = "writing"
  /\ requests[r].version # wallet.version
  /\ Returned(r, Failure("Transaction failed"))
  /\ UNCHANGED wallet
  /\ WalletUnchanged

WalletNext ==
  \/ \E r \in Requests : add_money_to_wallet(r)
  \/ \E r \in Requests : deduct_money_from_wallet(r)
  \/ \E r \in Requests : process_refund(r)
  \/ \E r \in Requests : Transaction_run(r)
  \/ \E r \in Requests : Transaction_commit(r)
  \/ \E r \in Requests : Transaction_retry(r)
  \/ \E r \in Requests : Transaction_abort(r)

SpecWallet == WalletInit /\ [][WalletNext]_vars

\* ------------------------------------------ state machine of the entities
\* One entity, built by its constructor; the callers invoke its methods one
\* call after the other.  A raised exception is the result of the call and
\* the entity stays as the method left it.
EntitiesInit ==
  /\ pc = "idle"
  /\ op = "none"
  /\ args = EmptyDict
  /\ ret = EmptyDict
  /\ external_offer_prices = EmptyDict
  /\ wallet = EmptyDict
  /\ requests = EmptyDict
  /\ \/ contract \in NewContracts /\ booking = EmptyDict
        /\ user = EmptyDict /\ car = EmptyDict
     \/ contract = EmptyDict /\ booking \in NewBookings
        /\ user = EmptyDict /\ car = EmptyDict
     \/ contract = EmptyDict /\ booking = EmptyDict
        /\ user \in NewUsers /\ car = EmptyDict
     \/ contract = EmptyDict /\ booking = EmptyDict
        /\ user = EmptyDict /\ car \in NewCars

\* the method o was called with arguments a and its outcome is out
Called(o, a, out) ==
  /\ pc' = "done"
  /\ op' = o
  /\ args' = a
  /\ ret' = out.result
  /\ UNCHANGED <<external_offer_prices, wallet, requests>>

Contract_complete ==
  /\ Loaded(contract)
  /\ LET out == complete(contract)
     IN  Called("Contract.complete", [self |-> contract], out)
         /\ contract' = out.self
  /\ UNCHANGED <<booking, user, car>>

Contract_cancel ==
  /\ Loaded(contract)
  /\ \E reason \in Reasons :
       LET out == ContractCancel(contract, reason)
       IN  Called("Contract.cancel", [self |-> contract, reason |-> reason],
                  out)
           /\ contract' = out.self
  /\ UNCHANGED <<booking, user, car>>

Contract_update_payment_status ==
  /\ Loaded(contract)
  /\ \E status \in PaymentStatus :
       LET out == update_payment_status(contract, status)
       IN  Called("Contract.update_payment_status",
                  [self |-> contract, status |-> status], out)
           /\ contract' = out.self
  /\ UNCHANGED <<booking, user, car>>

Booking_accept ==
  /\ Loaded(booking)
  /\ LET out == accept(booking)
     IN  Called("Booking.accept", [self |-> booking], out)
         /\ booking' = out.self
  /\ UNCHANGED <<contract, user, car>>

Booking_deny ==
  /\ Loaded(booking)
  /\ \E reason \in Reasons :
       LET out == deny(booking, reason)
       IN  Called("Booking.deny", [self |-> booking, reason |-> reason], out)
           /\ booking' = out.self
  /\ UNCHANGED <<contract, user, car>>

Booking_cancel ==
  /\ Loaded(booking)
  /\ \E reason \in Reasons :
       LET out == BookingCancel(booking, reason)
       IN  Called("Booking.cancel", [self |-> booking, reason |-> reason],
                  out)
           /\ booking' = out.self
  /\ UNCHANGED <<contract, user, car>>

Booking_update_dates ==
  /\ Loaded(booking)
  /\ \E new_date_range \in {DateRange(1, 8).value} :
       LET out == update_dates(booking, new_date_range)
       IN  Called("Booking.update_dates",
                  [self |-> booking, new_date_range |-> new_date_range], out)
           /\ booking' = out.self
  /\ UNCHANGED <<contract, user, car>>

Booking_update_car ==
  /\ Loaded(booking)
  /\ \E new_car_id \in CarIds, new_booking_cost \in BookingCosts,
        new_total_cost \in BookingCosts :
       LET out == update_car(booking, new_car_id, new_booking_cost,
                             new_total_cost)
       IN  Called("Booking.update_car",
                  [self |-> booking, new_car_id |-> new_car_id,
                   new_booking_cost |-> new_booking_cost,
                   new_total_cost |-> new_total_cost], out)
           /\ booking' = out.self
  /\ UNCHANGED <<contract, user, car>>

Booking_update_locations ==
  /\ Loaded(booking)
  /\ \E new_locations \in {"hotel"} :
       LET out == update_locations(booking, new_locations)
       IN  Called("Booking.update_locations",
                  [self |-> booking, new_locations |-> new_locations], out)
           /\ booking' = out.self
  /\ UNCHANGED <<contract, user, car>>

User_verify_email ==
  /\ Loaded(user)
  /\ LET out == verify_email(user)
     IN  Called("User.verify_email", [self |-> user], out)
         /\ user' = out.self
  /\ UNCHANGED <<contract, booking, car>>

User_verify_phone ==
  /\ Loaded(user)
  /\ LET out == verify_phone(user)
     IN  Called("User.verify_phone", [self |-> user], out)
         /\ user' = out.self
  /\ UNCHANGED <<contract, booking, car>>

User_activate ==
  /\ Loaded(user)
  /\ LET out == activate(user)
     IN  Called("User.activate", [self |-> user], out)
         /\ user' = out.self
  /\ UNCHANGED <<contract, booking, car>>

User_deactivate ==
  /\ Loaded(user)
  /\ LET out == deactivate(user)
     IN  Called("User.deactivate", [self |-> user], out)
         /\ user' = out.self
  /\ UNCHANGED <<contract, booking, car>>

User_suspend ==
  /\ Loaded(user)
  /\ \E reason \in Reasons :
       LET out == suspend(user, reason)
       IN  Called("User.suspend", [self |-> user, reason |-> reason], out)
           /\ user' = out.self
  /\ UNCHANGED <<contract, booking, car>>

User_update_profile ==
  /\ Loaded(user)
  /\ \E kw \in ProfileArgs :
       LET out == update_profile(user, kw)
       IN  Called("User.update_profile", [self |-> user, kw |-> kw], out)
           /\ user' = out.self
  /\ UNCHANGED <<contract, booking, car>>

\* the balance is kept below MaxBalance
User_add_to_wallet ==
  /\ Loaded(user)
  /\ \E amount \in UserAmounts :
       /\ user.wallet_balance.amount + amount.amount <= Fix(MaxBalance)
       /\ LET out == add_to_wallet(user, amount)
          IN  Called("User.add_to_wallet",
                     [self |-> user, amount |-> amount], out)
              /\ user' = out.self
  /\ UNCHANGED <<contract, booking, car>>

User_deduct_from_wallet ==
  /\ Loaded(user)
  /\ \E amount \in UserAmounts :
       LET out == deduct_from_wallet(user, amount)
       IN  Called("User.deduct_from_wallet",
                  [self |-> user, amount |-> amount], out)
           /\ user' = out.self
  /\ UNCHANGED <<contract, booking, car>>

Car_mark_as_rented ==
  /\ Loaded(car)
  /\ LET out == mark_as_rented(car)
     IN  Called("Car.mark_as_rented", [self |-> car], out)
         /\ car' = out.self
  /\ UNCHANGED <<contract, booking, user>>

Car_mark_as_available ==
  /\ Loaded(car)
  /\ LET out == mark_as_available(car)
     IN  Called("Car.mark_as_available", [self |-> car], out)
         /\ car' = out.self
  /\ UNCHANGED <<contract, booking, user>>

Car_send_for_maintenance ==
  /\ Loaded(car)
  /\ \E reason \in {"None", "brakes"} :
       LET out == send_for_maintenance(car, reason)
       IN  Called("Car.send_for_maintenance",
                  [self |-> car, reason |-> reason], out)
           /\ car' = out.self
  /\ UNCHANGED <<contract, booking, user>>

Car_complete_maintenance ==
  /\ Loaded(car)
  /\ \E kw \in MaintenanceArgs :
       LET out == complete_maintenance(car, kw)
       IN  Called("Car.complete_maintenance", [self |-> car, kw |-> kw], out)
           /\ car' = out.self
  /\ UNCHANGED <<contract, booking, user>>

Car_put_out_of_service ==
  /\ Loaded(car)
  /\ \E reason \in {" ", "accident"} :
       LET out == put_out_of_service(car, reason)
       IN  Called("Car.put_out_of_service",
                  [self |-> car, reason |-> reason], out)
           /\ car' = out.self
  /\ UNCHANGED <<contract, booking, user>>

Car_return_to_service ==
  /\ Loaded(car)
  /\ LET out == return_to_service(car)
     IN  Called("Car.return_to_service", [self |-> car], out)
         /\ car' = out.self
  /\ UNCHANGED <<contract, booking, user>>

EntitiesNext ==
  \/ Contract_extend
  \/ Contract_complete
  \/ Contract_cancel
  \/ Contract_update_payment_status
  \/ Booking_accept
  \/ Booking_deny
  \/ Booking_cancel
  \/ Booking_update_dates
  \/ Booking_update_car
  \/ Booking_update_locations
  \/ User_verify_email
  \/ User_verify_phone
  \/ User_activate
  \/ User_deactivate
  \/ User_suspend
  \/ User_update_profile
  \/ User_add_to_wallet
  \/ User_deduct_from_wallet
  \/ Car_mark_as_rented
  \/ Car_mark_as_available
  \/ Car_send_for_maintenance
  \/ Car_complete_maintenance
  \/ Car_put_out_of_service
  \/ Car_return_to_service

SpecEntities == EntitiesInit /\ [][EntitiesNext]_vars

\* ----------------------------------------------------------------- claims
Booking == Done("calculate_total_booking_cost")

\* 15% of an amount
FifteenPercent(x) == MulDiv(x, 15, 100)

\* C1: the taxes of every booking breakdown are exactly 15% of its booking
\* cost; base cost 700 with delivery fee 50 and offers worth 100 gives
\* taxes 105 and total 955.
C1_TaxesAreFifteenPercent ==
  (Booking /\ ret.ok) =>
    /\ ret.value.taxes.amount = FifteenPercent(ret.value.booking_cost.amount)
    /\ (/\ ret.value.booking_cost.amount = Fix(700)
        /\ ret.value.delivery_fee.amount = Fix(50)
        /\ ret.value.offers_total.amount = Fix(100))
       => (/\ ret.value.taxes.amount = Fix(105)
           /\ ret.value.total_cost.amount = Fix(955))

\* C2: in every booking breakdown total_cost = booking_cost + taxes +
\* delivery_fee + offers_total, and all five amounts are in the car's currency.
C2_TotalIsSumOfParts ==
  (Booking /\ ret.ok) =>
    LET b == ret.value
        cur == Upper(Get(args.car_data, "Currency", "SAR"))
    IN  /\ b.total_cost.amount =
             b.booking_cost.amount + b.taxes.amount + b.delivery_fee.amount
             + b.offers_total.amount
        /\ \A m \in {b.booking_cost, b.taxes, b.delivery_fee, b.offers_total,
                     b.total_cost} : m.currency = cur

\* a discounted package booking in USD with a delivery fee and paid offers
C2_Witness ==
  /\ Booking
  /\ ret.ok
  /\ args.is_package_booking
  /\ args.package_months = 3
  /\ args.discount_percent = 10
  /\ ret.value.delivery_fee.amount > 0
  /\ ret.value.offers_total.amount > 0
  /\ ret.value.total_cost.currency = "USD"

\* the sum of OfferPricingService.calculate_offer_price over a batch, from
\* offer i on; raises when one of the prices raises
RECURSIVE EngineTotalFrom(_, _, _, _, _, _, _, _)
EngineTotalFrom(ext, offers, car_data, booking_type, units, currency, discount_percent, i) ==
  IF i > Len(offers) THEN Ok(0)
  ELSE LET price == calculate_offer_price(ext, offers[i], car_data,
                                          booking_type, units, currency,
                                          EmptyDict, discount_percent > 0,
                                          discount_percent)
           rest == EngineTotalFrom(ext, offers, car_data, booking_type, units,
                                   currency, discount_percent, i + 1)
       IN  IF ~price.ok THEN price
           ELSE IF ~rest.ok THEN rest
           ELSE Ok(price.value.amount + rest.value)

\* C3: the offers_total of a booking breakdown equals the sum of the offer
\* engine's calculate_offer_price over the same offers, car, unit and count.
C3_OffersPricedByEngine ==
  (Booking /\ ret.ok) =>
    LET engine == EngineTotalFrom(external_offer_prices, args.offers,
                                  args.car_data, args.booking_type, args.count,
                                  Get(args.car_data, "Currency", "SAR"),
                                  args.discount_percent, 1)
    IN  engine.ok => ret.value.offers_total.amount = engine.value

Extension == Done("calculate_total_extension_cost")

\* the price the extension batch computes for one of its offers
BatchPrice(offer) ==
  calculate_offer_price(external_offer_prices, offer, args.car_data,
                        args.booking_type, args.units, args.currency,
                        args.dates, args.has_discount, args.discount_percent)

\* the offers of the batch whose pricing does not raise
PricedOffers == SelectSeq(args.offers, LAMBDA o : BatchPrice(o).ok)

\* the offer loop of the extension call ran and one of its offers raised
OneOfferRaised ==
  /\ Extension
  /\ calculate_extension_cost(args.car_data, args.booking_type, args.units,
                              args.currency, args.has_discount,
                              args.discount_percent, args.rate).ok
  /\ \E i \in 1..Len(args.offers) : ~BatchPrice(args.offers[i]).ok

RECURSIVE SumCosts(_)
SumCosts(breakdown) ==
  IF breakdown = <<>> THEN 0
  ELSE Head(breakdown).cost + SumCosts(Tail(breakdown))

\* the breakdown is the one of the batch without its failing offers
DegradedBreakdown ==
  /\ ret.ok
  /\ Len(ret.value.offer_breakdown) = Len(PricedOffers)
  /\ \A i \in 1..Len(PricedOffers) :
       ret.value.offer_breakdown[i].cost = BatchPrice(PricedOffers[i]).value.amount
  /\ ret.value.offers_total = SumCosts(ret.value.offer_breakdown)
  /\ ret = calculate_total_extension_cost(
             external_offer_prices, args.car_data, args.booking_type,
             args.units, PricedOffers, args.currency, args.dates,
             args.has_discount, args.discount_percent, args.rate)

\* C4 (as claimed): whenever pricing one offer of an extension batch raises,
\* the call still returns a breakdown, without the failing offer and with
\* every other offer priced as if the failing one had not been in the list.
C4_AnyFailingOfferIsSkipped == OneOfferRaised => DegradedBreakdown

\* C4 (amended): for a booking unit of Day, Week or Month, whenever pricing
\* one offer of an extension batch raises, the call still returns a
\* breakdown, without the failing offer and with every other offer priced as
\* if the failing one had not been in the list.
C4_FailingOfferIsSkipped ==
  (OneOfferRaised /\ args.booking_type \in BookingType) => DegradedBreakdown

\* a batch of an unknown offer type followed by a priced offer
C4_Witness ==
  /\ OneOfferRaised
  /\ args.booking_type \in BookingType
  /\ Len(args.offers) = 2
  /\ ~BatchPrice(args.offers[1]).ok
  /\ ret.ok
  /\ Len(ret.value.offer_breakdown) = 1
  /\ ret.value.offers_total > 0

\* the offer types PricingService._calculate_offer_price has a formula for
BookingOfferTypes == {"km_package", "insurance", "documents", "child_chair"}

\* C5: an offer of a booking whose type is not a recognized offer type is
\* skipped: offers_total is the total of the recognized offers alone.
C5_UnknownOfferAddsNothing ==
  (Booking /\ ret.ok) =>
    LET known == SelectSeq(args.offers,
                           LAMBDA o : Lower(Get(o, "type", ""))
                                        \in BookingOfferTypes)
        total == IF Len(known) > 0
                   THEN calculate_offers_total(known, ret.value.booking_cost)
                   ELSE Ok(Money(0, ret.value.booking_cost.currency))
    IN  ret.value.offers_total = total.value

\* the rates of the claim, read from the car document
C6_Daily(car_data) ==
  IF Has(car_data, "rental_price_day") THEN Fix(car_data["rental_price_day"])
  ELSE IF Has(car_data, "rental_price") THEN Fix(car_data["rental_price"])
  ELSE 0

C6_Weekly(car_data) ==
  IF Has(car_data, "rental_price_week") THEN Fix(car_data["rental_price_week"])
  ELSE 0

C6_Monthly(car_data) ==
  IF Has(car_data, "rental_price_month")
    THEN Fix(car_data["rental_price_month"])
  ELSE IF Has(car_data, "rental_price_mounth")
    THEN Fix(car_data["rental_price_mounth"])
  ELSE 0

\* C6: calculate_base_price returns daily x count for Day; weekly x count for
\* Week, or daily x 7 x count when the weekly rate is missing or zero;
\* monthly x count for Month, or daily x 30 x count when the monthly rate is
\* missing or zero; and raises a validation error for any other unit.
C6_BasePrice ==
  Done("calculate_base_price") =>
    LET a_car == args.car_data
        n == args.count
    IN  CASE args.booking_type = "Day" ->
               ret.ok /\ ret.value.amount = C6_Daily(a_car) * n
          [] args.booking_type = "Week" ->
               /\ ret.ok
               /\ C6_Weekly(a_car) # 0 => ret.value.amount = C6_Weekly(a_car) * n
               /\ C6_Weekly(a_car) = 0 =>
                    ret.value.amount = (C6_Daily(a_car) * 7) * n
          [] args.booking_type = "Month" ->
               /\ ret.ok
               /\ C6_Monthly(a_car) # 0 => ret.value.amount = C6_Monthly(a_car) * n
               /\ C6_Monthly(a_car) = 0 =>
                    ret.value.amount = (C6_Daily(a_car) * 30) * n
          [] OTHER -> ~ret.ok /\ ret.error = "ValidationError"

\* daily rate 100, no weekly rate, one Week: 700
C6_Witness ==
  /\ Done("calculate_base_price")
  /\ args.car_data = [rental_price_day |-> 100]
  /\ args.booking_type = "Week"
  /\ args.count = 1
  /\ ret.ok
  /\ ret.value.amount = Fix(700)

OfferTypeOf(offer_data) ==
  Get(offer_data, "offerType", Get(offer_data, "type", ""))

\* C7: an Insurance offer costs (currentRate(unit) x count) x 20% and a KM
\* offer (currentRate(unit) x count) x 25%, on the unit count and not on the
\* number of days, and doubling the count doubles the price.
C7_PercentageOffers ==
  (Done("calculate_offer_price")
   /\ OfferTypeOf(args.offer_data) \in {"Insurance", "KM"}) =>
    LET rate == calculate_current_car_price(args.car_data, args.booking_type,
                                            args.has_discount,
                                            args.discount_percent)
        percent == IF OfferTypeOf(args.offer_data) = "Insurance" THEN 20
                   ELSE 25
        doubled == calculate_offer_price(
                     external_offer_prices, args.offer_data, args.car_data,
                     args.booking_type, 2 * args.units, args.currency,
                     args.dates, args.has_discount, args.discount_percent)
    IN  /\ ret.ok <=> rate.ok
        /\ ret.ok =>
             /\ ret.value.amount * 100 = rate.value * args.units * percent
             /\ doubled.ok
             /\ doubled.value.amount = 2 * ret.value.amount

\* an Insurance offer on two weeks at the weekly rate of 300: 120
C7_Witness ==
  /\ Done("calculate_offer_price")
  /\ OfferTypeOf(args.offer_data) = "Insurance"
  /\ args.booking_type = "Week"
  /\ args.units = 2
  /\ ~args.has_discount
  /\ ret.ok
  /\ ret.value.amount = Fix(120)

\* C8: calculate_current_car_price never returns a price <= 0: it returns a
\* strictly positive price or raises.
C8_PriceIsPositive ==
  (Done("calculate_current_car_price") /\ ret.ok) => ret.value > 0

\* C9: a discount percent outside [0,100] is always rejected with a
\* validation error, by calculate_current_car_price with has_discount set and
\* by calculate_total_booking_cost.
C9_DiscountOutOfRangeRejected ==
  /\ (/\ Done("calculate_current_car_price")
      /\ args.has_discount
      /\ args.booking_type \in BookingType
      /\ args.discount_percent \notin 0..100)
     => (~ret.ok /\ ret.error = "ValidationError")
  /\ (Booking /\ args.discount_percent \notin 0..100)
     => (~ret.ok /\ ret.error = "ValidationError")

\* a car document that holds a plain rate plan: a positive daily rate and
\* possibly a weekly rate
RatePlanCar(car_data) ==
  /\ DOMAIN car_data \subseteq {"rental_price", "rental_price_week"}
  /\ Has(car_data, "rental_price")
  /\ car_data["rental_price"] > 0
  /\ Get(car_data, "rental_price_week", 1) > 0

\* C10: for a Week or Month unit calculate_base_price (one unit),
\* Car.get_rate_for_booking_type and calculate_current_car_price (without
\* discount) yield the same rate for the same car, falling back to
\* daily x 7 / daily x 30 when the weekly / monthly rate is absent.
C10_SameRateEverywhere ==
  (/\ pc = "done"
   /\ op \in {"calculate_base_price", "get_rate_for_booking_type",
              "calculate_current_car_price"}
   /\ RatePlanCar(args.car_data)
   /\ args.booking_type \in {"Week", "Month"}) =>
    LET base == calculate_base_price(args.car_data, args.booking_type, 1)
        entity == get_rate_for_booking_type(parse_money_values(args.car_data),
                                            args.booking_type)
        current == calculate_current_car_price(args.car_data,
                                               args.booking_type, FALSE, 0)
    IN  /\ base.ok /\ entity.ok /\ current.ok
        /\ base.value.amount = current.value
        /\ entity.value.amount = current.value

CarPrice == Done("calculate_current_car_price")

\* the daily rate of the car of the call: rental_price_day, else rental_price
C11_DailyRate ==
  Fix(Get(args.car_data, "rental_price_day", Get(args.car_data, "rental_price", 0)))

\* price x (1 - discountPercent / 100)
C11_Reduced(price, discount_percent) ==
  MulDiv(price, 100 - discount_percent, 100)

ChildChair == Done("calculate_child_chair_offer_price")

OfferPrice == Done("calculate_offer_price")

\* the price C12 states for a child seat, as a fixed-point amount
C12_Price(offer_data, booking_type, units) ==
  LET name == IF Has(offer_data, "offer") THEN offer_data["offer"]
              ELSE IF Has(offer_data, "name") THEN offer_data["name"] ELSE ""
      dailyOfferPrice ==
        Fix(IF Has(offer_data, "offerPrice") THEN offer_data["offerPrice"]
            ELSE IF Has(offer_data, "price") THEN offer_data["price"] ELSE 0)
      tier == IF booking_type = "Week" THEN "L2" ELSE "L3"
      totalDays == IF booking_type = "Week" THEN 7 * units ELSE 30 * units
      registered == /\ name \in DOMAIN external_offer_prices
                    /\ tier \in DOMAIN external_offer_prices[name]
  IN  IF booking_type = "Day" THEN dailyOfferPrice * units
      ELSE IF registered
        THEN Fix(external_offer_prices[name][tier]) * totalDays
        ELSE dailyOfferPrice * totalDays

\* C12: a child seat costs dailyOfferPrice x count for Day, the registered
\* L2 (Week) or L3 (Month) rate x totalDays with totalDays = 7 x count or
\* 30 x count, and dailyOfferPrice x totalDays when the tier rate or the
\* whole entry is absent; a missing tier rate never makes the call fail
C12_ChildSeatPrice ==
  /\ (ChildChair /\ args.booking_type \in BookingType) =>
        /\ ret.ok
        /\ ret.value.amount =
             C12_Price(args.offer_data, args.booking_type, args.units)
  /\ (/\ OfferPrice
      /\ args.booking_type \in BookingType
      /\ OfferTypeOf(args.offer_data) = "ChildChair") =>
        /\ ret.ok \/ ~calculate_current_car_price(
                         args.car_data, args.booking_type, args.has_discount,
                         args.discount_percent).ok
        /\ ret.ok => ret.value.amount =
                       C12_Price(args.offer_data, args.booking_type, args.units)

\* a Month request for the seat whose entry holds an L2 rate only: two
\* months are 60 days at the daily price of 5
C12_Witness ==
  /\ ChildChair
  /\ args.booking_type = "Month"
  /\ args.units = 2
  /\ args.offer_data = [name |-> "seat", price |-> 5]
  /\ external_offer_prices = [seat |-> [L2 |-> 4]]
  /\ ret.ok
  /\ ret.value.amount = Fix(300)

DocumentsDated == Done("calculate_documents_offer_price")

DocumentsBooked == Done("calculate_documents_offer_price_for_booking")

\* ceil(days / 30)
C13_Ceil30(days) ==
  IF days % 30 = 0 THEN days \div 30 ELSE days \div 30 + 1

\* max(1, ceil(days / 30))
C13_Months(days) == IF C13_Ceil30(days) > 1 THEN C13_Ceil30(days) ELSE 1

\* the days of count units
C13_Days(booking_type, count) ==
  CASE booking_type = "Day" -> count
    [] booking_type = "Week" -> 7 * count
    [] booking_type = "Month" -> 30 * count

\* the monthly price of a documents offer
C13_MonthlyPrice(offer_data) ==
  Fix(IF Has(offer_data, "offerPrice") THEN offer_data["offerPrice"]
      ELSE IF Has(offer_data, "price") THEN offer_data["price"] ELSE 0)

C14_PackagePrices(car_data, package_months) ==
  LET packages == IF Has(car_data, "Packages") THEN car_data["Packages"]
                  ELSE <<>>
  IN  {Fix(packages[i]["priceB4Discount"]) :
         i \in {j \in DOMAIN packages :
                  packages[j]["packageMonths"] = package_months}}

\* C14: whenever calculate_total_booking_cost is called with
\* is_package_booking set, the booking cost is the price of the package table
\* entry for package_months (less the discount of the call), and the call
\* fails when the table has no such entry; the per-unit rates never price a
\* package booking
C14_PackageBypassesPerUnit ==
  (Booking /\ args.is_package_booking) =>
    LET prices == C14_PackagePrices(args.car_data, args.package_months)
    IN  IF prices = {}
          THEN ~ret.ok
          ELSE ret.ok =>
                 \E price \in prices :
                   ret.value.booking_cost.amount =
                     IF args.discount_percent > 0
                       THEN MulDiv(price, 100 - args.discount_percent, 100)
                       ELSE price

Extend == Done("extend")

ExtendTo == Done("extend_to")

ExtensionQuote == Done("PricingService.calculate_extension_cost")

\* the new end date of the call is not after the end date the contract had
NotAfterEnd == args.new_end_date <= args.self.date_range.end_date

\* C15: an extension whose new end date is not strictly after the current
\* end date raises on PricingService.calculate_extension_cost, on
\* Contract.extend and on DateRange.extend_to, and the rejected
\* Contract.extend leaves date_range, total_cost, status, is_extended and
\* extension_history as they were
C15_ExtensionNotAfterEndRejected ==
  /\ (ExtensionQuote /\ NotAfterEnd) => ~ret.ok
  /\ (ExtendTo /\ NotAfterEnd) => ~ret.ok
  /\ (Extend /\ NotAfterEnd) =>
        /\ ~ret.ok
        /\ contract.date_range = args.self.date_range
        /\ contract.total_cost = args.self.total_cost
        /\ contract.status = args.self.status
        /\ contract.is_extended = args.self.is_extended
        /\ contract.extension_history = args.self.extension_history

\* an extendable contract asked to extend to the end date it already has
C15_Witness ==
  /\ Extend
  /\ can_extend(args.self)
  /\ args.new_end_date = args.self.date_range.end_date
  /\ args.extension_type = "Day"
  /\ args.count = 1
  /\ args.extension_cost = Money(Fix(300), "SAR")
  /\ ret = Raise("ValidationError")
  /\ contract = args.self

\* bookingCost / durationDays x extensionDays, which is also what
\* bookingCost / durationWeeks x (extensionDays / 7) and
\* bookingCost / durationMonths x (extensionDays / 30) amount to
C16_ProRated(self, new_end_date) ==
  MulDiv(self.booking_cost.amount,
         new_end_date - self.date_range.end_date,
         self.date_range.end_date - self.date_range.start_date)

\* C16: PricingService.calculate_extension_cost returns a price for every
\* valid contract and every new end date after the current end, the
\* pro-rated share of the booking cost (with its tax added)
C16_EveryExtensionIsPriced ==
  (ExtensionQuote /\ ~NotAfterEnd) =>
    /\ ret.ok
    /\ LET pro_rated == Money(C16_ProRated(args.self, args.new_end_date),
                               args.self.booking_cost.currency)
       IN  ret.value = add(pro_rated, calculate_taxes(pro_rated)).value

\* C17: the value returned by PricingService.calculate_extension_cost is
\* exactly 1.15 times the pro-rated extension amount
C17_ExtensionTaxIsFifteenPercent ==
  (ExtensionQuote /\ ret.ok) =>
    ret.value.amount =
      MulDiv(C16_ProRated(args.self, args.new_end_date), 115, 100)

\* a custom rate is supplied: the flag is set and a rate is given
C18_CustomRate == args.rate["is_custom_rate"] /\ Has(args.rate, "custom_rate")

\* the rate of the extension: the custom rate, else the current car price
C18_Rate ==
  IF C18_CustomRate
    THEN Fix(args.rate["custom_rate"])
    ELSE calculate_current_car_price(args.car_data, args.booking_type,
                                     args.has_discount,
                                     args.discount_percent).value

\* C18: every breakdown of calculate_total_extension_cost has
\* extension_cost = rate x units (the custom rate when one is supplied, which
\* is rejected with a validation error when it is <= 0, the current car price
\* otherwise), offers_total = the sum of the costs in offer_breakdown,
\* subtotal = extension_cost + offers_total, taxes = 15% of subtotal and
\* total_cost = subtotal + taxes
C18_ExtensionBreakdown ==
  /\ (Extension /\ C18_CustomRate /\ args.rate["custom_rate"] <= 0) =>
        ret = Raise("ValidationError")
  /\ (Extension /\ ret.ok) =>
        /\ ret.value.extension_cost = C18_Rate * args.units
        /\ ret.value.offers_total = SumCosts(ret.value.offer_breakdown)
        /\ ret.value.subtotal =
             ret.value.extension_cost + ret.value.offers_total
        /\ ret.value.taxes = FifteenPercent(ret.value.subtotal)
        /\ ret.value.total_cost = ret.value.subtotal + ret.value.taxes

\* two weeks at a custom rate of 80 with an insurance offer (20% of 2 x 300)
\* and a documents offer: 160 + 120 + 100 = 380, taxes 57, total 437
C18_Witness ==
  /\ Extension
  /\ args.booking_type = "Week"
  /\ args.units = 2
  /\ args.rate = [is_custom_rate |-> TRUE, custom_rate |-> 80]
  /\ Len(args.offers) = 2
  /\ ret.ok
  /\ Len(ret.value.offer_breakdown) = 2
  /\ ret.value.extension_cost = Fix(160)
  /\ ret.value.offers_total = Fix(220)
  /\ ret.value.subtotal = Fix(380)
  /\ ret.value.taxes = Fix(57)
  /\ ret.value.total_cost = Fix(437)

RoundTrip == Done("Money.add.subtract")

SameCurrency == args.self.currency = args.other.currency

\* add and subtract between different currencies raise
C19_CurrencyMismatchRaises ==
  ((Done("Money.add") \/ Done("Money.subtract") \/ RoundTrip)
   /\ ~SameCurrency) => ret = Raise("ValueError")

\* C19 as stated: for all Money values a and b of equal currency
\* a.add(b).subtract(b) equals a, and add and subtract between different
\* currencies raise
C19_RoundTripForAllMoney ==
  /\ C19_CurrencyMismatchRaises
  /\ (RoundTrip /\ SameCurrency) =>
        ret.ok /\ Money_eq(ret.value, args.self)

\* a and a + b are finite and have at most Prec significant digits
C19_WithinPrecision ==
  /\ args.self.amount.kind = "finite"
  /\ args.other.amount.kind = "finite"
  /\ SignificantDigits(args.self.amount.digits) <= Prec
  /\ SignificantDigits(ExactSum(args.self.amount,
                                args.other.amount).digits) <= Prec

\* C19: for all Money values a and b of equal currency and finite amounts,
\* a and a + b having at most 28 significant digits, a.add(b).subtract(b)
\* equals a in amount and currency; add and subtract between different
\* currencies raise
C19_RoundTripWithinPrecision ==
  /\ C19_CurrencyMismatchRaises
  /\ (RoundTrip /\ SameCurrency /\ C19_WithinPrecision) =>
        /\ ret.ok
        /\ Money_eq(ret.value, args.self)
        /\ ret.value.currency = args.self.currency

\* 0.01 SAR plus 1E+25 SAR (27 digits) and back
C19_Witness ==
  /\ RoundTrip
  /\ args.self = Money(Finite(0, <<1>>, -2), "sar")
  /\ args.other = Money(Finite(0, <<1>>, 25), "SAR")
  /\ ret = Ok(Money(Finite(0, <<1>>, -2), "SAR"))

\* the request has returned success = true
Succeeded(r) == requests[r].pc = "returned" /\ requests[r].result.success

\* what a request adds to the balance
SignedAmount(action, amount) == IF action = "add" THEN amount ELSE -amount

RECURSIVE SumOfSucceeded(_)
SumOfSucceeded(S) ==
  IF S = {} THEN 0
  ELSE LET r == CHOOSE x \in S : TRUE
       IN  (IF Succeeded(r)
              THEN SignedAmount(requests[r].action, requests[r].amount)
              ELSE 0)
           + SumOfSucceeded(S \ {r})

\* the history records written for request r
RecordsOf(r) ==
  {i \in 1..Len(wallet.Transaction_history) :
     wallet.Transaction_history[i].id = r}

\* C20: under every interleaving of the requests on one wallet no update is
\* lost (balance = opening balance + successful adds - successful deducts),
\* a deduct succeeds only on a balance of at least its amount, every
\* successful request has exactly one history record whose previousBalance
\* and newBalance differ by the amount and chain with the other records,
\* and a request that fails (insufficient balance included) returns
\* success = false, leaves the balance alone and has no record
C20_WalletOperationsAtomic ==
  LET history == wallet.Transaction_history
  IN  /\ wallet.Wallet_Balance
           = wallet.opening_balance + SumOfSucceeded(Requests)
      /\ \A i \in 1..Len(history) :
           /\ history[i].newBalance - history[i].previousBalance
                = SignedAmount(history[i].action, history[i].amount)
           /\ history[i].action = "deduct" =>
                history[i].previousBalance >= history[i].amount
           /\ history[i].previousBalance
                = IF i = 1 THEN wallet.opening_balance
                  ELSE history[i - 1].newBalance
      /\ history # <<>> =>
           history[Len(history)].newBalance = wallet.Wallet_Balance
      /\ \A r \in Requests :
           IF Succeeded(r)
             THEN \E i \in 1..Len(history) :
                    /\ RecordsOf(r) = {i}
                    /\ history[i].action = requests[r].action
                    /\ history[i].amount = requests[r].amount
                    /\ history[i].previousBalance
                         = requests[r].result.wallet.previousBalance
                    /\ history[i].newBalance
                         = requests[r].result.wallet.newBalance
             ELSE RecordsOf(r) = {}
      /\ \A r \in Requests :
           (/\ requests[r].pc = "started"
            /\ requests[r].action = "deduct"
            /\ wallet.exists
            /\ wallet.Wallet_Balance < requests[r].amount) =>
             ~TransactionFunction(r).ok

\* two concurrent requests on a balance of 40: the deduct of 50 succeeds on
\* the 70 the add of 30 has left
C20_Witness ==
  /\ wallet.exists
  /\ \A r \in Requests : requests[r].pc = "returned"
  /\ Len(wallet.Transaction_history) = 2
  /\ wallet.Transaction_history[1].action = "add"
  /\ wallet.Transaction_history[2].action = "deduct"
  /\ wallet.Transaction_history[2].previousBalance = 70
  /\ wallet.Wallet_Balance = 20

\* the call made was one of the four mutation methods and it raised
MutationRejected ==
  /\ pc = "done"
  /\ op \in {"extend", "Booking.update_car", "User.add_to_wallet",
             "User.deduct_from_wallet"}
  /\ ~ret.ok

\* C21: after any sequence of successful or rejected calls of
\* Contract.extend, Booking.update_car, User.add_to_wallet and
\* User.deduct_from_wallet (and of the other methods) on an entity that
\* passed validation, Contract.total_cost, Booking.booking_cost,
\* Booking.total_cost and User.wallet_balance are >= 0, and a rejected call
\* leaves the money fields of the entity as they were
C21_MoneyFieldsNeverNegative ==
  /\ Loaded(contract) => contract.total_cost.amount >= 0
  /\ Loaded(booking) =>
       booking.booking_cost.amount >= 0 /\ booking.total_cost.amount >= 0
  /\ Loaded(user) => user.wallet_balance.amount >= 0
  /\ MutationRejected =>
       /\ Loaded(contract) => contract.total_cost = args.self.total_cost
       /\ Loaded(booking) =>
            /\ booking.booking_cost = args.self.booking_cost
            /\ booking.total_cost = args.self.total_cost
       /\ Loaded(user) => user.wallet_balance = args.self.wallet_balance

\* a deduct of 50 from a wallet of 40 is rejected and the 40 stay
C21_Witness ==
  /\ pc = "done"
  /\ op = "User.deduct_from_wallet"
  /\ args.self.wallet_balance = Money(Fix(40), "SAR")
  /\ args.amount = Money(Fix(50), "SAR")
  /\ ret = Raise("BusinessRuleViolation")
  /\ user.wallet_balance = Money(Fix(40), "SAR")

\* a method of the car has been called
CarCall(method) == pc = "done" /\ op = method

\* C22: mark_as_rented succeeds exactly on an AVAILABLE car and leaves it
\* RENTED and not available; on a RENTED car mark_as_rented,
\* send_for_maintenance and put_out_of_service are rejected and the car
\* stays as it was, so a car leaves RENTED only through mark_as_available;
\* send_for_maintenance on a car that is not RENTED sets MAINTENANCE
C22_RentedOnlyWhenAvailable ==
  /\ CarCall("Car.mark_as_rented") =>
       /\ ret.ok <=> args.self.status = "available"
       /\ ret.ok => car.status = "rented" /\ ~is_available(car)
  /\ (/\ pc = "done"
      /\ op \in {"Car.mark_as_rented", "Car.send_for_maintenance",
                 "Car.put_out_of_service"}
      /\ args.self.status = "rented") =>
       ~ret.ok /\ car = args.self
  /\ (pc = "done" /\ Loaded(car) /\ args.self.status = "rented"
      /\ car.status # "rented") =>
       op = "Car.mark_as_available"
  /\ (CarCall("Car.send_for_maintenance") /\ args.self.status # "rented") =>
       ret.ok /\ car.status = "maintenance"

\* a rented car is asked to be rented again
C22_Witness ==
  /\ CarCall("Car.mark_as_rented")
  /\ args.self.status = "rented"
  /\ ret = Raise("BusinessRuleViolation")
  /\ car.status = "rented"

\* the user after verify_email, and after verify_phone
EmailVerified(self) == verify_email(self).self

PhoneVerified(self) == verify_phone(self).self

\* C23: on every reachable user, verify_email and verify_phone return
\* normally, set their own flag and leave the other flag as it was; on a
\* PENDING_VERIFICATION user the two calls give the same user in either
\* order, ACTIVE and able to make bookings, while one call alone (the other
\* flag not set) leaves the status PENDING_VERIFICATION; the status of a
\* SUSPENDED or INACTIVE user is never changed by either call
C23_VerificationCommutes ==
  Loaded(user) =>
    /\ verify_email(user).result.ok /\ verify_phone(user).result.ok
    /\ EmailVerified(user).email_verified
    /\ EmailVerified(user).phone_verified = user.phone_verified
    /\ PhoneVerified(user).phone_verified
    /\ PhoneVerified(user).email_verified = user.email_verified
    /\ user.status = "pending_verification" =>
         /\ PhoneVerified(EmailVerified(user))
              = EmailVerified(PhoneVerified(user))
         /\ PhoneVerified(EmailVerified(user)).status = "active"
         /\ can_make_bookings(PhoneVerified(EmailVerified(user)))
         /\ ~user.phone_verified =>
              EmailVerified(user).status = "pending_verification"
         /\ ~user.email_verified =>
              PhoneVerified(user).status = "pending_verification"
    /\ user.status \in {"suspended", "inactive"} =>
         /\ EmailVerified(user).status = user.status
         /\ PhoneVerified(user).status = user.status
    /\ (pc = "done" /\ op = "User.verify_email") =>
         user = EmailVerified(args.self)
    /\ (pc = "done" /\ op = "User.verify_phone") =>
         user = PhoneVerified(args.self)

\* verify_phone called on a pending user whose email is verified: the user
\* is now active and can make bookings
C23_Witness ==
  /\ pc = "done"
  /\ op = "User.verify_phone"
  /\ args.self.status = "pending_verification"
  /\ args.self.email_verified
  /\ ~args.self.phone_verified
  /\ user.status = "active"
  /\ can_make_bookings(user)

\* the offer is a child seat or a documents offer
CarIndependentOffer(offer_data) ==
  OfferTypeOf(offer_data) \in {"ChildChair", "Documents"}

\* C24: the price of a ChildSeat or Documents offer does not depend on the
\* car: for the offer, unit, count and dates of a calculate_offer_price
\* call, every car price info gives the result of the call, and an extension
\* batch keeps every such offer in its breakdown whatever the car's rates
C24_OfferPriceIgnoresCar ==
  /\ (/\ OfferPrice
      /\ args.booking_type \in BookingType
      /\ CarIndependentOffer(args.offer_data)) =>
       \A car_data \in BookingCars :
         calculate_offer_price(external_offer_prices, args.offer_data,
                               car_data, args.booking_type, args.units,
                               args.currency, args.dates, args.has_discount,
                               args.discount_percent) = ret
  /\ (Extension /\ args.booking_type \in BookingType /\ ret.ok) =>
       \A i \in 1..Len(args.offers) :
         CarIndependentOffer(args.offers[i]) =>
           \E j \in 1..Len(ret.value.offer_breakdown) :
             ret.value.offer_breakdown[j].type = OfferTypeOf(args.offers[i])

\* Contract.extend was called and returned normally
Extended == pc = "done" /\ op = "extend" /\ ret.ok

ContractCalled == pc = "done" /\ Loaded(contract)

\* C26: under every sequence of extend, complete, cancel and
\* update_payment_status a COMPLETED contract stays COMPLETED, with cancel,
\* complete and extend rejected, and a CANCELLED contract stays CANCELLED
\* with its payment_status as it was; complete succeeds only from ACTIVE or
\* EXTENDED with payment_status PAID, and cancel only with a reason that is
\* not blank
C26_CompletedAndCancelledAbsorbing ==
  ContractCalled =>
    /\ args.self.status = "completed" =>
         /\ contract.status = "completed"
         /\ op \in {"extend", "Contract.complete", "Contract.cancel"} =>
              ~ret.ok /\ contract = args.self
    /\ args.self.status = "cancelled" =>
         /\ contract.status = "cancelled"
         /\ contract.payment_status = args.self.payment_status
    /\ (op = "Contract.complete" /\ ret.ok) =>
         /\ args.self.status \in {"active", "extended"}
         /\ args.self.payment_status = "paid"
         /\ contract.status = "completed"
    /\ (op = "Contract.cancel" /\ ret.ok) =>
         /\ args.reason \notin {"None", "", " "}
         /\ contract.status = "cancelled"

\* the payment of a cancelled contract is reported paid: the call is
\* rejected
C26_Witness ==
  /\ ContractCalled
  /\ op = "Contract.update_payment_status"
  /\ args.self.status = "cancelled"
  /\ args.self.payment_status = "pending"
  /\ args.status = "paid"
  /\ ret = Raise("BusinessRuleViolation")
  /\ contract = args.self

\* a method of the booking has been called
BookingCalled == pc = "done" /\ Loaded(booking)

\* C27: for a booking that starts PENDING, under every sequence of accept,
\* deny, cancel, update_dates, update_car and update_locations: accept and
\* deny succeed only in PENDING; in DENIED and CANCELLED every call is
\* rejected and leaves the booking as it was; CONFIRMED and COMPLETED are
\* never reached; on an ACCEPTED booking update_dates and update_locations
\* are rejected and update_car is still accepted; accepted_at is set
\* exactly when the booking is or has been ACCEPTED (it is assigned by the
\* accepting call only and kept), and denied_reason and denied_at exactly
\* when it is DENIED
C27_BookingStatusMachine ==
  Loaded(booking) =>
    /\ booking.status \notin {"confirmed", "completed"}
    /\ booking.status = "accepted" => booking.accepted_at # "None"
    /\ booking.accepted_at # "None" =>
         booking.status \in {"accepted", "cancelled"}
    /\ booking.status = "denied" <=> booking.denied_reason # "None"
    /\ booking.status = "denied" <=> booking.denied_at # "None"
    /\ pc = "done" =>
         /\ (op \in {"Booking.accept", "Booking.deny"} /\ ret.ok) =>
              args.self.status = "pending"
         /\ args.self.status \in {"denied", "cancelled"} =>
              ~ret.ok /\ booking = args.self
         /\ (/\ args.self.status = "accepted"
             /\ op \in {"Booking.update_dates", "Booking.update_locations"}) =>
              ~ret.ok /\ booking = args.self
         /\ (/\ args.self.status = "accepted"
             /\ op = "Booking.update_car"
             /\ args.new_car_id = "car-2"
             /\ args.new_booking_cost.amount >= 0
             /\ args.new_total_cost.amount >= 0) =>
              ret.ok /\ booking.car_id = "car-2"
         /\ booking.accepted_at # args.self.accepted_at =>
              op = "Booking.accept" /\ booking.status = "accepted"
         /\ (args.self.accepted_at = "None" /\ booking.status = "cancelled")
              => args.self.status \in {"pending", "cancelled"}

\* the car of an accepted booking is replaced
C27_Witness ==
  /\ BookingCalled
  /\ op = "Booking.update_car"
  /\ args.self.status = "accepted"
  /\ args.self.car_id = "car-1"
  /\ ret.ok
  /\ booking.car_id = "car-2"
  /\ booking.status = "accepted"
  /\ booking.accepted_at = "now"

\* C28: for a user that starts PENDING_VERIFICATION with both flags false,
\* in every state reached by verify_email, verify_phone, activate,
\* deactivate, suspend and update_profile an ACTIVE user has email_verified
\* and phone_verified (and so can make bookings), and a SUSPENDED user
\* stays SUSPENDED whatever is called
C28_ActiveImpliesVerified ==
  Loaded(user) =>
    /\ user.status = "active" =>
         /\ user.email_verified
         /\ user.phone_verified
         /\ can_make_bookings(user)
    /\ (pc = "done" /\ args.self.status = "suspended") =>
         user.status = "suspended"

\* the car has been put out of service and its reason is still recorded
OutOfServiceRecorded(self) == Has(self.car_data, "out_of_service_reason")

\* C29: an OUT_OF_SERVICE car has its out_of_service_reason recorded, the
\* reason stays recorded until return_to_service is called, and a car whose
\* reason is still recorded (it has not been returned to service) is never
\* AVAILABLE or RENTED
C29_OutOfServiceUntilReturned ==
  Loaded(car) =>
    /\ car.status = "out_of_service" => OutOfServiceRecorded(car)
    /\ (/\ pc = "done"
        /\ OutOfServiceRecorded(args.self)
        /\ op # "Car.return_to_service") =>
         OutOfServiceRecorded(car)
    /\ OutOfServiceRecorded(car) => car.status \notin {"available", "rented"}

\* C30: the stored Wallet_Balance is never negative and no history record
\* has a negative newBalance, and neither has an update or a record that a
\* transaction function hands to the transaction
C30_WalletBalanceNeverNegative ==
  /\ wallet.Wallet_Balance >= 0
  /\ \A i \in 1..Len(wallet.Transaction_history) :
       wallet.Transaction_history[i].newBalance >= 0
  /\ \A r \in Requests :
       requests[r].pc = "writing" =>
         /\ requests[r].writes.Wallet_Balance >= 0
         /\ requests[r].writes.record.newBalance >= 0

====
